---- MODULE Spec2Model ----
(***************************************************************************)
(* Model of the console capture engine of the bug-reporter extension:      *)
(* the interception wrappers of extension/content-script.js, the in-page   *)
(* event store consoleLogs, and the merge of the store with the debugger   *)
(* channel (mergeLogs).                                                    *)
(*                                                                         *)
(* Strings are TLA+ strings (Len, SubSeq and \o act on them as on JS       *)
(* strings).  A JS value that may be undefined is a sequence of length 0   *)
(* (undefined) or 1 (the value).                                           *)
(***************************************************************************)
EXTENDS Integers, Sequences, FiniteSets, TLC

\* ------------------------------------------------------------------ bounds

\* Host diagnostic calls with freely chosen method, arguments and stack.
MaxCalls == 2
\* Milliseconds the clock may advance during a run.
MaxTicks == 1
\* Host reassignments of a console slot.
MaxReassign == 1
\* Watchdog / observer installation runs after activation.
MaxRuns == 1
\* Iterations of the host's logging loop (one short of filling the store twice over).
LoopLen == 499
\* Depth at which the JS engine raises RangeError for a runaway recursion.
StackLimit == 6
\* The clock at activation, in ms (chosen so that the seconds field rolls over).
ClockStart == 999

\* ------------------------------------------------------- program constants

\* content-script.js:68  if (consoleLogs.length > 500)
MaxLogs == 500
\* content-script.js:382 log.message.substring(0, 100)
KeyPrefixLen == 100
\* content-script.js:52 stack.split('\n').slice(2, 12)
SliceFrom == 2
SliceTo == 12

Methods == <<"log", "warn", "error", "info", "debug">>
MethodSet == {Methods[i] : i \in 1..Len(Methods)}

Min(a, b) == IF a < b THEN a ELSE b

\* ------------------------------------------------------- argument values

\* A JS argument, by what argToString can observe of it:
\*   isObject  typeof arg === 'object' && arg !== null
\*   preview   arg.preview.properties, a sequence of [name, value] (value undefined = <<>>)
\*   json      JSON.stringify(arg, null, 2), <<>> when it throws
\*   str       String(arg), <<>> when it throws
ArgA == [isObject |-> FALSE, preview |-> <<>>, json |-> <<"\"A\"">>, str |-> <<"A">>]
ArgB == [isObject |-> FALSE, preview |-> <<>>, json |-> <<"\"B\"">>, str |-> <<"B">>]
ArgKaptio ==
  [isObject |-> FALSE, preview |-> <<>>, json |-> <<"\"KAPTIO init\"">>, str |-> <<"KAPTIO init">>]
\* {x: 1}
ArgObjX1 ==
  [isObject |-> TRUE, preview |-> <<>>, json |-> <<"{\n  \"x\": 1\n}">>, str |-> <<"[object Object]">>]
\* a debugger-style remote object {preview: {properties: [{name:'x', value:'1'}, {name:'y'}]}}
ArgPreview ==
  [isObject |-> TRUE,
   preview |-> << <<[name |-> "x", value |-> <<"1">>], [name |-> "y", value |-> <<>>]>> >>,
   json |-> <<"{...}">>, str |-> <<"[object Object]">>]
\* o = {}; o.self = o : JSON.stringify throws, String(o) works
ArgCircular ==
  [isObject |-> TRUE, preview |-> <<>>, json |-> <<>>, str |-> <<"[object Object]">>]
\* o = Object.create(null); o.self = o : JSON.stringify throws and String(o) throws
ArgOpaque == [isObject |-> TRUE, preview |-> <<>>, json |-> <<>>, str |-> <<>>]

\* The result of an evaluation that may throw.
Ok(v) == [ok |-> TRUE, val |-> v]
Throw == [ok |-> FALSE, val |-> ""]

\* String(arg)
String(arg) == IF arg.str # <<>> THEN Ok(arg.str[1]) ELSE Throw

RECURSIVE JoinStrings(_, _)
\* Array.prototype.join(sep) on a sequence of strings
JoinStrings(ss, sep) ==
  IF ss = <<>> THEN ""
  ELSE IF Len(ss) = 1 THEN ss[1]
  ELSE ss[1] \o sep \o JoinStrings(Tail(ss), sep)

\* `${p.name}: ${p.value || JSON.stringify(p.value)}` ; a falsy value is undefined
\* (JSON.stringify gives undefined, printed "undefined") or '' (printed '""')
PreviewProp(p) ==
  p.name \o ": " \o (IF p.value = <<>> THEN "undefined"
                      ELSE IF p.value[1] = "" THEN "\"\"" ELSE p.value[1])

\* argToString without its structured branch
argToStringPlain(arg) == String(arg)

\* argToString: structured values go through the preview or JSON.stringify, and
\* through String(arg) when that throws; everything else through String(arg).
argToString(arg) ==
  IF arg.isObject
  THEN IF arg.preview # <<>>
       THEN Ok("{" \o JoinStrings([i \in 1..Len(arg.preview[1]) |-> PreviewProp(arg.preview[1][i])], ", ") \o "}")
       ELSE IF arg.json # <<>> THEN Ok(arg.json[1]) ELSE String(arg)
  ELSE String(arg)

\* args.map(argToString).join(' ') ; throws when an argToString throws
MessageOf(args) ==
  LET parts == [i \in 1..Len(args) |-> argToString(args[i])]
  IN IF \E i \in 1..Len(args) : ~parts[i].ok
     THEN Throw
     ELSE Ok(JoinStrings([i \in 1..Len(args) |-> parts[i].val], " "))

\* ------------------------------------------------------------ timestamps

\* Date.prototype.toISOString of an instant in ms: the fields of the fixed-width
\* text "1970-01-01T00:00:SS.mmmZ" that vary in the model.
toISOString(ms) == [sec |-> ms \div 1000, msec |-> ms % 1000]
\* new Date(text).getTime()
getTime(iso) == iso.sec * 1000 + iso.msec

\* --------------------------------------------------------------- call stacks

\* new Error().stack as the sequence of its lines (split at '\n'); <<>> when the
\* engine gives no stack.
StackNone == <<>>
StackShort ==
  <<"Error", "    at console.wrapper (content-script.js:49:21)", "    at boot (app.js:3:9)">>
StackDeep ==
  <<"Error", "    at console.wrapper (content-script.js:49:21)",
    "    at f1 (app.js:1:1)", "    at f2 (app.js:2:1)", "    at f3 (app.js:3:1)",
    "    at f4 (app.js:4:1)", "    at f5 (app.js:5:1)", "    at f6 (app.js:6:1)",
    "    at f7 (app.js:7:1)", "    at f8 (app.js:8:1)", "    at f9 (app.js:9:1)",
    "    at f10 (app.js:10:1)", "    at f11 (app.js:11:1)", "    at f12 (app.js:12:1)">>

RECURSIVE TrimLeft(_)
TrimLeft(s) == IF Len(s) > 0 /\ SubSeq(s, 1, 1) = " " THEN TrimLeft(SubSeq(s, 2, Len(s))) ELSE s
RECURSIVE TrimRight(_)
TrimRight(s) ==
  IF Len(s) > 0 /\ SubSeq(s, Len(s), Len(s)) = " " THEN TrimRight(SubSeq(s, 1, Len(s) - 1)) ELSE s
\* String.prototype.trim
Trim(s) == TrimRight(TrimLeft(s))

StackTraceOfSkipOne(stack) ==
  IF stack = <<>> THEN ""
  ELSE LET lines == SubSeq(stack, 2, Min(SliceTo, Len(stack)))
       IN JoinStrings([i \in 1..Len(lines) |-> "  " \o Trim(lines[i])], "\n")

\* The stackTrace text a wrapper records for a captured stack.
StackTraceOf(stack) ==
  IF stack = <<>> THEN ""
  ELSE LET lines == SubSeq(stack, SliceFrom + 1, Min(SliceTo, Len(stack)))
       IN JoinStrings([i \in 1..Len(lines) |-> "  " \o Trim(lines[i])], "\n")

\* ------------------------------------------------------------------ events

\* window.location.href of the page context
PageUrl == "https://host.example/page"

\* The log entry a wrapper builds (content-script.js:57-63).
LogEntry(methodName, message, ms, stack) ==
  [level |-> methodName, message |-> message, timestamp |-> toISOString(ms),
   url |-> PageUrl, stackTrace |-> <<StackTraceOf(stack)>>]

\* The synthetic entry the clear wrapper builds (content-script.js:192-197): it
\* has no stackTrace property.
ClearMarker(ms) ==
  [level |-> "info", message |-> "[Console was cleared]", timestamp |-> toISOString(ms),
   url |-> PageUrl, stackTrace |-> <<>>]

\* consoleLogs.push(logEntry); if (consoleLogs.length > 500) consoleLogs.shift();
PushLog(logs, entry) ==
  LET pushed == Append(logs, entry)
  IN IF Len(pushed) > MaxLogs THEN Tail(pushed) ELSE pushed

\* consoleLogs.push({...}) of the clear wrapper: no length check follows it.
PushMarker(logs, entry) == Append(logs, entry)

\* --------------------------------------------------------- function values

\* A JS function value held by a slot of the console object:
\*   native        the browser's own function
\*   host          a function of the host page; inner = <<g>> when it forwards its
\*                 arguments to g, throws = TRUE when it throws instead of returning
\*   wrapper       createConsoleWrapper(method, nativeMethod); inner = <<nativeMethod>>
\*                 when nativeMethod is a function
\*   clearWrapper  the clearWrapper closure of applyOverrides
\*   hostValue     a function of the host page that returns a value of its own
\*   undefined     no function
FnUndefined == [kind |-> "undefined", method |-> "", inner |-> <<>>, throws |-> FALSE]
Native(m) == [kind |-> "native", method |-> m, inner |-> <<>>, throws |-> FALSE]
HostFn(m, inner, throws) == [kind |-> "host", method |-> m, inner |-> inner, throws |-> throws]
HostValueFn(m) == [kind |-> "hostValue", method |-> m, inner |-> <<>>, throws |-> FALSE]
IsFunction(f) == f.kind # "undefined"
\* f._kaptioWrapper
IsKaptioWrapper(f) == f.kind = "wrapper"

\* createConsoleWrapper(methodName, nativeMethod): the wrapper closure, tagged
\* _kaptioWrapper = true and _kaptioMethod = methodName.
createConsoleWrapper(methodName, nativeMethod) ==
  [kind |-> "wrapper", method |-> methodName,
   inner |-> IF IsFunction(nativeMethod) THEN <<nativeMethod>> ELSE <<>>,
   throws |-> FALSE]

clearWrapper == [kind |-> "clearWrapper", method |-> "clear", inner |-> <<>>, throws |-> FALSE]

Slots == MethodSet \cup {"clear"}

\* ------------------------------------------------------------------- state

VARIABLES
  consoleLogs,    \* the in-page event store (content-script.js:10)
  nativeConsole,  \* the console functions saved at load (content-script.js:14-21)
  console,        \* the slots of the host's console object
  slotMode,       \* per slot: "open", or "locked" when the host environment
                  \* rejects both defineProperty and assignment on it
  proxied,        \* window.console was replaced by the engine's Proxy
  now,            \* the system clock, ms
  trace,          \* every function invocation and every store append, in order
  calls,          \* the page's diagnostic calls so far: [method, args, target, threw]
  selfTest,       \* the 100 ms self-test timer: "pending" or "done"
  nCalls, nReassign, nRuns, looped,   \* bounds bookkeeping
  debuggerLogs, contentScriptLogs,    \* the inputs of a merge
  merged,                              \* <<result>> once mergeLogs has run
  checkCount,       \* the watchdog's tick counter (content-script.js:235)
  reapplyInterval,  \* the watchdog's timer: "set" or "cleared"
  observer,         \* the MutationObserver: "observing" or "disconnected"
  timerRuns,        \* applyOverrides runs started by the timer
  observerRuns,     \* applyOverrides runs started by the observer
  mutations,        \* DOM mutation bursts of the page so far
  lastRun,          \* how the last call of applyOverrides ended: "returned" or
                    \* "threw"
  reassigned,       \* <<>>, or <<r>> for the page's reassignment of a named slot:
                    \* r.at = <<tick>> while the slot holds the page's function,
                    \* <<>> once an installation run has wrapped it; r.dense
                    \* when it was made in the dense phase, r.late when the run
                    \* came later than Limit ticks after it
  captures,         \* capturePage handlers waiting for their screenshot
  responses,        \* what sendResponse has delivered, in order
  outbox,           \* messages sent to the background worker, in order
  consoleLogsFromDebugger,  \* background.js:11, the channel's buffer per tab
  capturedData,     \* background.js:8, per tab <<>> or <<data>> stored by storeData
  attached,         \* the tabs chrome.debugger is attached to
  openTabs,         \* the tabs that have not been removed
  requested,        \* the tabs named by an attachDebugger request so far
  navigatedAt,      \* per tab, the instant its current page context began
  replies,          \* what the background worker's handlers have answered, in order
  detachCalls,      \* the calls of detachDebugger so far: [tabId, wasAttached,
                    \* hadDebugger, threw]
  captureComplete,  \* popup.js:15-18
  submitDisabled,   \* submitBtn.disabled of the popup
  formPointerEvents,  \* form.style.pointerEvents of the popup: "none" or "auto"
  popupPc,          \* where init() of the popup is: "loading" at its first await,
                    \* "waiting" at its second, "ready" when it has returned,
                    \* "failed" in its catch block, "reenabled" after the catch
                    \* block's timer, "closed" when the popup is gone
  popupData,        \* popup.js:7-13, capturedData of the popup by what is read of
                    \* it: [consoleLogs, screenshot]
  inFlight,         \* calls of submitIssue that wait for the server's answer
  nSubmit,          \* submit events of the form so far
  reports           \* the payloads the server has accepted: [consoleLogs], with
                    \* the page's calls and the capture requests so far

vars == <<consoleLogs, nativeConsole, console, slotMode, proxied, now, trace, calls,
          selfTest, nCalls, nReassign, nRuns, looped, debuggerLogs, contentScriptLogs,
          merged, checkCount, reapplyInterval, observer, timerRuns, observerRuns,
          mutations, reassigned, lastRun, captures, responses, outbox,
          consoleLogsFromDebugger, capturedData, attached, openTabs, requested,
          navigatedAt, replies, detachCalls, captureComplete, submitDisabled,
          formPointerEvents, popupPc, popupData, inFlight, nSubmit, reports>>

captureVars == <<consoleLogs, nativeConsole, console, slotMode, proxied, now, trace,
                 calls, selfTest, nCalls, nReassign, nRuns, looped>>
mergeVars == <<debuggerLogs, contentScriptLogs, merged>>
watchVars == <<checkCount, reapplyInterval, observer, timerRuns, observerRuns, mutations,
              reassigned, lastRun>>
messageVars == <<captures, responses, outbox, consoleLogsFromDebugger>>
workerVars == <<capturedData, attached, openTabs, requested, navigatedAt, replies,
               detachCalls>>
popupVars == <<captureComplete, submitDisabled, formPointerEvents, popupPc, popupData,
              inFlight, nSubmit, reports>>

\* ------------------------------------------------------ the console object

\* The get trap of the console Proxy (content-script.js:114-133): reading a named
\* method that is not tagged wraps it and stores the wrapper back on the target.
ProxyGet(con, prop) ==
  IF prop \in MethodSet /\ IsFunction(con[prop])
  THEN IF IsKaptioWrapper(con[prop])
       THEN [val |-> con[prop], con |-> con]
       ELSE LET wrapper == createConsoleWrapper(prop, con[prop])
            IN [val |-> wrapper,
                con |-> IF slotMode[prop] = "locked" THEN con ELSE [con EXCEPT ![prop] = wrapper]]
  ELSE [val |-> con[prop], con |-> con]

\* console[prop] as page or engine code evaluates it.
ConsoleGet(con, prop) ==
  IF proxied THEN ProxyGet(con, prop) ELSE [val |-> con[prop], con |-> con]

InstallMethodKeep(con, method) == con

\* an iteration without the test of lines 156-158; the console is taken as a
\* value before it is read
InstallMethodAlways(con, method) ==
  LET Wrapped(c) ==
        LET got == ConsoleGet(c, method)
            wrapper == createConsoleWrapper(method,
                         IF IsFunction(got.val) THEN got.val ELSE nativeConsole[method])
        IN IF slotMode[method] = "locked" THEN got.con
           ELSE [got.con EXCEPT ![method] = wrapper]
  IN CHOOSE next \in {Wrapped(c) : c \in {con}} : TRUE

\* One iteration of methods.forEach in applyOverrides (content-script.js:150-187).
\* On a locked slot defineProperty and the assignments of lines 175 and 181 all
\* throw; the last catch swallows it and the slot is left as it was.
InstallMethod(con, method) ==
  LET got == ConsoleGet(con, method)
      currentMethod == got.val
  IN IF IsKaptioWrapper(currentMethod) /\ currentMethod.method = method
     THEN got.con
     ELSE LET wrapper ==
                createConsoleWrapper(method,
                  IF IsFunction(currentMethod) THEN currentMethod ELSE nativeConsole[method])
          IN IF slotMode[method] = "locked" THEN got.con
             ELSE [got.con EXCEPT ![method] = wrapper]

RECURSIVE InstallAll(_, _)
InstallAll(con, i) ==
  IF i > Len(Methods) THEN con ELSE InstallAll(InstallMethod(con, Methods[i]), i + 1)

\* applyOverrides (content-script.js:149-228): the named methods, then clear.  With
\* the clear slot locked, the assignment in the catch block of line 218 throws out
\* of applyOverrides.
applyOverrides(con) ==
  LET c1 == InstallAll(con, 1)
  IN IF slotMode["clear"] = "locked"
     THEN [con |-> c1, threw |-> TRUE]
     ELSE [con |-> [c1 EXCEPT !["clear"] = clearWrapper], threw |-> FALSE]

\* ------------------------------------------------------------- invocation

CallRec(f, args, by) == [op |-> "call", fn |-> f, args |-> args, by |-> by, entry |-> <<>>]
PushRec(f, entry) == [op |-> "push", fn |-> f, args |-> <<>>, by |-> f, entry |-> <<entry>>]
\* The page's own code as a caller.
HostCaller == [kind |-> "page", method |-> "", inner |-> <<>>, throws |-> FALSE]

\* try { ... } catch (e) {}
Caught(st) == [st EXCEPT !.threw = FALSE]

CaptureLate(f, entry, st) == st

\* The wrapper f appends the event of its call (content-script.js:57-70), before
\* it forwards.
Capture(f, entry, st) ==
  [st EXCEPT !.logs = PushLog(@, entry), !.trace = Append(@, PushRec(f, entry))]

RECURSIVE Invoke(_, _, _, _, _)
\* f(...args) called by `by` while `stack` is what new Error().stack yields; st is
\* [logs, con, trace, threw, depth] and the result is st after the call.
Invoke(f, args, by, stack, st) ==
  IF st.depth >= StackLimit
  THEN [st EXCEPT !.threw = TRUE]     \* RangeError: Maximum call stack size exceeded
  ELSE
    LET st1 == [st EXCEPT !.depth = @ + 1, !.trace = Append(@, CallRec(f, args, by))]
        res ==
          CASE f.kind = "native" -> st1
            [] f.kind = "hostValue" -> st1
            [] f.kind = "host" ->
                 IF f.throws THEN [st1 EXCEPT !.threw = TRUE]
                 ELSE IF f.inner # <<>> THEN Invoke(f.inner[1], args, f, stack, st1)
                 ELSE st1
            [] f.kind = "wrapper" ->
                 \* content-script.js:47-87
                 LET msg == MessageOf(args)
                 IN IF ~msg.ok THEN [st1 EXCEPT !.threw = TRUE]
                    ELSE
                      LET entry == LogEntry(f.method, msg.val, now, stack)
                          st2 == Capture(f, entry, st1)
                          got == ConsoleGet(st2.con, f.method)
                      IN IF f.inner # <<>>
                         THEN Caught(Invoke(f.inner[1], args, f, stack, st2))
                         ELSE IF IsFunction(nativeConsole[f.method])
                         THEN Caught(Invoke(nativeConsole[f.method], args, f, stack, st2))
                         ELSE IF IsFunction(got.val)
                         THEN Caught(Invoke(got.val, args, f, stack, [st2 EXCEPT !.con = got.con]))
                         ELSE [st2 EXCEPT !.con = got.con]
            [] f.kind = "clearWrapper" ->
                 \* content-script.js:191-208
                 LET entry == ClearMarker(now)
                     st2 == [st1 EXCEPT !.logs = PushMarker(@, entry),
                                        !.trace = Append(@, PushRec(f, entry))]
                 IN IF IsFunction(nativeConsole["clear"])
                    THEN Caught(Invoke(nativeConsole["clear"], <<>>, f, stack, st2))
                    ELSE IF IsFunction(st2.con["clear"])
                    THEN Caught(Invoke(st2.con["clear"], <<>>, f, stack, st2))
                    ELSE st2
            [] OTHER -> [st1 EXCEPT !.threw = TRUE]   \* TypeError: not a function
    IN [res EXCEPT !.depth = st.depth]

\* What a call of f evaluates to when it returns: the host's function of kind
\* hostValue returns its value; the wrapper (content-script.js:47-87) and the
\* clear wrapper (191-208) have no return statement, the browser's console
\* functions and the other page functions of the model return nothing.
ReturnValue(f) == IF f.kind = "hostValue" THEN "value" ELSE "undefined"

\* The page evaluates console[method](...args).
PageCall(method, args, stack, st) ==
  LET got == ConsoleGet(st.con, method)
  IN Invoke(got.val, args, HostCaller, stack, [st EXCEPT !.con = got.con, !.threw = FALSE])

\* ---------------------------------------------------------- initial states

AllNative == [s \in Slots |-> Native(s)]
\* The console object as the content script finds it at load: untouched, with
\* clear or log deleted by the page, or with clear replaced by a throwing function.
LoadConsoles ==
  { AllNative,
    [AllNative EXCEPT !["clear"] = FnUndefined],
    [AllNative EXCEPT !["clear"] = HostFn("clear", <<>>, TRUE)],
    [AllNative EXCEPT !["log"] = FnUndefined] }

AllOpen == [s \in Slots |-> "open"]

\* The tabs of the browser; the content script modelled here runs in ThisTab.
Tabs == {"tab1", "tab2"}
ThisTab == "tab1"

\* console.log('[Kaptio Test] ...') of content-script.js:510
ArgSelfTest ==
  [isObject |-> FALSE, preview |-> <<>>, json |-> <<"\"[Kaptio Test]\"">>,
   str |-> <<"[Kaptio Test] If you see this in the extension logs, wrapper is working!">>]

\* ------------------------------------------------------------------ the popup

updateCaptureStatusNoDisable(complete, disabled) ==
  LET allComplete == complete.logs /\ complete.screenshot
  IN [disabled |-> IF allComplete THEN FALSE ELSE disabled,
      pointerEvents |-> IF allComplete THEN "auto" ELSE "none"]

\* updateCaptureStatus (popup.js:184-217), by what it leaves of the button, whose
\* disabled property it finds as `disabled`, and of the form
updateCaptureStatus(complete, disabled) ==
  LET allComplete == complete.logs /\ complete.screenshot
  IN [disabled |-> ~allComplete, pointerEvents |-> IF allComplete THEN "auto" ELSE "none"]

\* capturedData of the popup before loadCapturedData has answered (popup.js:7-13)
NoPopupData == [consoleLogs |-> <<>>, screenshot |-> <<>>]

\* The popup has opened: init (popup.js:222-237) has run to its first await, on a
\* button in whatever state the document gave it.
InitPopup ==
  /\ captureComplete = [logs |-> FALSE, screenshot |-> FALSE]
  /\ \E html \in BOOLEAN :
       LET ui == updateCaptureStatus(captureComplete, html)
       IN submitDisabled = ui.disabled /\ formPointerEvents = ui.pointerEvents
  /\ popupPc = "loading"
  /\ popupData = NoPopupData
  /\ inFlight = 0
  /\ nSubmit = 0
  /\ reports = <<>>

\* initConsoleCapture from its line 231 on (content-script.js:230-272): the first
\* applyOverrides; when it throws, initConsoleCapture ends there and neither
\* setInterval (line 236) nor observer.observe (line 263) is reached.
initConsoleCapture(con) ==
  LET run == applyOverrides(con)
  IN [con |-> run.con,
      lastRun |-> IF run.threw THEN "threw" ELSE "returned",
      reapplyInterval |-> IF run.threw THEN "unset" ELSE "set",
      observer |-> IF run.threw THEN "none" ELSE "observing"]

\* The state after the content script has run on a console whose slots are in
\* one of `modes`: nativeConsole saved, the Proxy installed when window.console
\* is configurable, initConsoleCapture run.
InitCaptureIn(loads, modes) ==
  /\ consoleLogs = <<>>
  /\ nativeConsole \in loads
  /\ slotMode \in modes
  /\ proxied \in BOOLEAN
  /\ LET a == initConsoleCapture(nativeConsole)
     IN /\ console = a.con
        /\ lastRun = a.lastRun
        /\ reapplyInterval = a.reapplyInterval
        /\ observer = a.observer
  /\ now = ClockStart
  /\ trace = <<>>
  /\ calls = <<>>
  /\ selfTest = "pending"
  /\ nCalls = 0 /\ nReassign = 0 /\ nRuns = 0 /\ looped = FALSE
  /\ checkCount = 0
  /\ timerRuns = 0 /\ observerRuns = 0 /\ mutations = 0 /\ reassigned = <<>>
  /\ captures = <<>> /\ responses = <<>> /\ outbox = <<>>
  /\ consoleLogsFromDebugger = [t \in Tabs |-> <<>>]
  /\ capturedData = [t \in Tabs |-> <<>>]
  /\ attached = {} /\ openTabs = Tabs /\ requested = {}
  /\ navigatedAt = [t \in Tabs |-> ClockStart]
  /\ replies = <<>> /\ detachCalls = <<>>
  /\ InitPopup

\* The content script has run on a console that accepts every installation.
InitCapture(loads) == InitCaptureIn(loads, {AllOpen})

NoMerge == debuggerLogs = <<>> /\ contentScriptLogs = <<>> /\ merged = <<>>

Init == InitCapture(LoadConsoles) /\ NoMerge

\* ------------------------------------------------------------------ actions

StateNow == [logs |-> consoleLogs, con |-> console, trace |-> trace, threw |-> FALSE, depth |-> 0]

Commit(st) ==
  /\ consoleLogs' = st.logs
  /\ console' = st.con
  /\ trace' = st.trace

\* What the page calls with: method, argument list and captured stack.
CallInputs ==
  { [method |-> "info",  args |-> <<ArgA>>,              stack |-> StackShort],
    [method |-> "error", args |-> <<ArgB, ArgObjX1>>,    stack |-> StackDeep],
    [method |-> "log",   args |-> <<ArgKaptio>>,         stack |-> StackNone],
    [method |-> "warn",  args |-> <<ArgOpaque>>,         stack |-> StackShort],
    [method |-> "debug", args |-> <<ArgCircular, ArgPreview>>, stack |-> StackShort],
    [method |-> "log",   args |-> <<>>,                  stack |-> StackShort] }

\* The page calls console[method](...args); `bound` caps the number of calls.
HostCallB(in, bound) ==
  /\ nCalls < bound
  /\ LET st == PageCall(in.method, in.args, in.stack, StateNow)
     IN /\ Commit(st)
        /\ calls' = Append(calls, [method |-> in.method, args |-> in.args,
                                   target |-> ConsoleGet(console, in.method).val,
                                   threw |-> st.threw])
  /\ nCalls' = nCalls + 1
  /\ UNCHANGED <<nativeConsole, slotMode, proxied, now, selfTest, nReassign, nRuns, looped>>
  /\ UNCHANGED <<mergeVars, popupVars, workerVars, watchVars, messageVars>>

HostCall(in) == HostCallB(in, MaxCalls)

\* The page calls console.clear().
HostClearB(bound) ==
  /\ nCalls < bound
  /\ LET st == PageCall("clear", <<>>, StackShort, StateNow)
     IN /\ Commit(st)
        /\ calls' = Append(calls, [method |-> "clear", args |-> <<>>,
                                   target |-> console["clear"], threw |-> st.threw])
  /\ nCalls' = nCalls + 1
  /\ UNCHANGED <<nativeConsole, slotMode, proxied, now, selfTest, nReassign, nRuns, looped>>
  /\ UNCHANGED <<mergeVars, popupVars, workerVars, watchVars, messageVars>>

HostClear == HostClearB(MaxCalls)

\* The clock advances by one millisecond.
Tick ==
  /\ now < ClockStart + MaxTicks
  /\ now' = now + 1
  /\ UNCHANGED <<consoleLogs, nativeConsole, console, slotMode, proxied, trace, calls,
                 selfTest, nCalls, nReassign, nRuns, looped>>
  /\ UNCHANGED <<mergeVars, popupVars, workerVars, watchVars, messageVars>>

\* The self-test of content-script.js:508-514, 100 ms after load: a console.log
\* through whatever occupies the slot; a failure is caught.
SelfTest ==
  /\ selfTest = "pending"
  /\ selfTest' = "done"
  /\ Commit(Caught(PageCall("log", <<ArgSelfTest>>, StackShort, StateNow)))
  /\ UNCHANGED <<nativeConsole, slotMode, proxied, now, calls, nCalls, nReassign, nRuns,
                 looped>>
  /\ UNCHANGED <<mergeVars, popupVars, workerVars, watchVars, messageVars>>

\* The page assigns its own function to a named slot: one that ignores, forwards
\* to, or throws instead of the function it replaces.
HostReassign(method, forwards, throws) ==
  /\ nReassign < MaxReassign
  /\ slotMode[method] = "open"
  /\ ~(forwards /\ throws)
  /\ LET got == ConsoleGet(console, method)
     IN console' = [got.con EXCEPT ![method] =
                      HostFn(method, IF forwards /\ IsFunction(got.val) THEN <<got.val>> ELSE <<>>,
                             throws)]
  /\ nReassign' = nReassign + 1
  /\ UNCHANGED <<consoleLogs, nativeConsole, slotMode, proxied, now, trace, calls, selfTest,
                 nCalls, nRuns, looped>>
  /\ UNCHANGED <<mergeVars, popupVars, workerVars, watchVars, messageVars>>

\* The page assigns the current value of one named slot to another:
\* console[method] = console[from].
HostAlias(method, from) ==
  /\ nReassign < MaxReassign
  /\ slotMode[method] = "open"
  /\ method # from
  /\ LET got == ConsoleGet(console, from)
     IN console' = [got.con EXCEPT ![method] = got.val]
  /\ nReassign' = nReassign + 1
  /\ UNCHANGED <<consoleLogs, nativeConsole, slotMode, proxied, now, trace, calls, selfTest,
                 nCalls, nRuns, looped>>
  /\ UNCHANGED <<mergeVars, popupVars, workerVars, watchVars, messageVars>>

\* The page assigns to a named slot a function of its own that returns a value.
HostReturning(method) ==
  /\ nReassign < MaxReassign
  /\ slotMode[method] = "open"
  /\ console' = [ConsoleGet(console, method).con EXCEPT ![method] = HostValueFn(method)]
  /\ nReassign' = nReassign + 1
  /\ UNCHANGED <<consoleLogs, nativeConsole, slotMode, proxied, now, trace, calls, selfTest,
                 nCalls, nRuns, looped>>
  /\ UNCHANGED <<mergeVars, popupVars, workerVars, watchVars, messageVars>>

\* An installation run of the watchdog (timer tick or mutation callback).
Reapply ==
  /\ nRuns < MaxRuns
  /\ console' = applyOverrides(console).con
  /\ nRuns' = nRuns + 1
  /\ UNCHANGED <<consoleLogs, nativeConsole, slotMode, proxied, now, trace, calls, selfTest,
                 nCalls, nReassign, looped>>
  /\ UNCHANGED <<mergeVars, popupVars, workerVars, watchVars, messageVars>>

\* The capture engine under the page's diagnostic calls.
Next ==
  \/ \E in \in CallInputs : HostCall(in)
  \/ HostClear
  \/ Tick
  \/ SelfTest

Spec == Init /\ [][Next]_vars

\* ------------------------------------------- installation against the page

NextInstall ==
  \/ \E in \in CallInputs : HostCall(in)
  \/ \E m \in {"log", "info"}, fw \in BOOLEAN, th \in BOOLEAN : HostReassign(m, fw, th)
  \/ HostReturning("info")
  \/ HostAlias("log", "warn")
  \/ Reapply

\* The wrappers under a page that reassigns console slots while the watchdog
\* re-installs them.
SpecInstall == Init /\ [][NextInstall]_vars

NextReinstall ==
  \/ \E m \in {"log", "info"}, fw \in BOOLEAN, th \in BOOLEAN : HostReassign(m, fw, th)
  \/ HostReturning("info")
  \/ HostAlias("log", "warn")
  \/ Reapply

\* Installation runs over what the page has made of the console object.
SpecReinstall == Init /\ [][NextReinstall]_vars

NextNested ==
  \/ \E in \in {c \in CallInputs : c.method = "log"} : HostCall(in)
  \/ \E fw \in BOOLEAN : HostReassign("log", fw, FALSE)
  \/ HostAlias("log", "warn")
  \/ Reapply

InitNested == InitCapture({AllNative}) /\ NoMerge

\* Calls of a slot whose function the page has replaced by one that calls the
\* function it found there.
SpecNested == InitNested /\ [][NextNested]_vars

\* ------------------------------------------------------------------- merge

\* the key taken from the whole message
KeyOfWholeMessage(log) == <<log.timestamp, log.message>>

\* `${log.timestamp}_${log.message.substring(0, 100)}`: the timestamp text has a
\* fixed width, so the key text is the pair of its two parts.
KeyOf(log) ==
  <<log.timestamp, SubSeq(log.message, 1, Min(KeyPrefixLen, Len(log.message)))>>

\* String.prototype.includes
Includes(s, sub) ==
  \E i \in 1..(Len(s) - Len(sub) + 1) : SubSeq(s, i, i + Len(sub) - 1) = sub

\* A Map as the sequence of its entries in insertion order.
MapHas(map, key) == \E i \in 1..Len(map) : map[i].key = key
MapGet(map, key) == map[CHOOSE i \in 1..Len(map) : map[i].key = key].val
\* a set that adds an entry also when the key is present
MapSetAppend(map, key, val) == Append(map, [key |-> key, val |-> val])

MapSetMoveToEnd(map, key, val) ==
  Append(SelectSeq(map, LAMBDA en : en.key # key), [key |-> key, val |-> val])

\* Map.prototype.set: a present key keeps its position.
MapSet(map, key, val) ==
  IF MapHas(map, key)
  THEN [i \in 1..Len(map) |-> IF map[i].key = key THEN [key |-> key, val |-> val] ELSE map[i]]
  ELSE Append(map, [key |-> key, val |-> val])

\* (log.stackTrace || '').length
StackTraceLength(log) == IF log.stackTrace = <<>> THEN 0 ELSE Len(log.stackTrace[1])

\* content-script.js:381-386, one debugger log
AddDebuggerLog(map, log) ==
  IF ~MapHas(map, KeyOf(log)) THEN MapSet(map, KeyOf(log), log) ELSE map

\* a content script log never replaces the entry stored under its key
PrefersNever(log, existing) == FALSE

PrefersNotShorter(log, existing) ==
  \/ Includes(log.message, "KAPTIO")
  \/ StackTraceLength(log) >= StackTraceLength(existing)

PrefersLongerOnly(log, existing) ==
  /\ log.stackTrace # <<>> /\ log.stackTrace[1] # ""
  /\ Len(log.stackTrace[1]) > StackTraceLength(existing)

\* content-script.js:397-398: the test that lets a content script log replace the
\* entry stored under its key
Prefers(log, existing) ==
  \/ Includes(log.message, "KAPTIO")
  \/ /\ log.stackTrace # <<>> /\ log.stackTrace[1] # ""
     /\ Len(log.stackTrace[1]) > StackTraceLength(existing)

\* content-script.js:389-402, one content script log
AddContentLog(map, log) ==
  IF ~MapHas(map, KeyOf(log)) THEN MapSet(map, KeyOf(log), log)
  ELSE IF Prefers(log, MapGet(map, KeyOf(log))) THEN MapSet(map, KeyOf(log), log)
  ELSE map

RECURSIVE AddDebuggerLogs(_, _)
AddDebuggerLogs(map, logs) ==
  IF logs = <<>> THEN map ELSE AddDebuggerLogs(AddDebuggerLog(map, Head(logs)), Tail(logs))

RECURSIVE AddContentLogs(_, _)
AddContentLogs(map, logs) ==
  IF logs = <<>> THEN map ELSE AddContentLogs(AddContentLog(map, Head(logs)), Tail(logs))

\* the comparator with its operands exchanged
CompareLogsReversed(a, b) == getTime(b.timestamp) - getTime(a.timestamp)

\* The comparator of content-script.js:406-410.
CompareLogs(a, b) == getTime(a.timestamp) - getTime(b.timestamp)

\* e placed before the elements that compare equal to it
InsertSortedUnstable(sorted, e) ==
  LET before == SelectSeq(sorted, LAMBDA x : getTime(x.timestamp) < getTime(e.timestamp))
      after == SelectSeq(sorted, LAMBDA x : getTime(x.timestamp) >= getTime(e.timestamp))
  IN before \o <<e>> \o after

RECURSIVE InsertSorted(_, _)
\* e placed behind every element that does not compare greater than it
InsertSorted(sorted, e) ==
  IF sorted = <<>> THEN <<e>>
  ELSE IF CompareLogs(Head(sorted), e) > 0 THEN <<e>> \o sorted
  ELSE <<Head(sorted)>> \o InsertSorted(Tail(sorted), e)

RECURSIVE SortLogs(_, _)
\* Array.prototype.sort with CompareLogs: a stable sort
SortLogs(done, rest) ==
  IF rest = <<>> THEN done ELSE SortLogs(InsertSorted(done, Head(rest)), Tail(rest))

\* mergeLogs(debuggerLogs, contentScriptLogs), content-script.js:377-413
mergeLogs(dLogs, cLogs) ==
  LET logMap == AddContentLogs(AddDebuggerLogs(<<>>, dLogs), cLogs)
      values == [i \in 1..Len(logMap) |-> logMap[i].val]
  IN SortLogs(<<>>, values)

\* ------------------------------------------------- the store under a flood

RECURSIVE LoopCalls(_, _)
\* for (i = 0; i < n; i++) console.log("A") ; an exception ends the loop.  The n
\* iterations are evaluated as two halves, one after the other.
LoopCalls(n, st) ==
  IF n = 0 \/ st.threw THEN st
  ELSE IF n = 1 THEN PageCall("log", <<ArgA>>, StackShort, st)
  ELSE LoopCalls(n - (n \div 2), LoopCalls(n \div 2, st))

\* The page logs in a synchronous loop while it starts up.
HostLoop ==
  /\ ~looped
  /\ nCalls = 0
  /\ looped' = TRUE
  /\ LET st == LoopCalls(LoopLen, StateNow)
     IN /\ Commit(st)
        /\ calls' = calls \o [i \in 1..LoopLen |->
                                [method |-> "log", args |-> <<ArgA>>,
                                 target |-> ConsoleGet(console, "log").val, threw |-> st.threw]]
  /\ UNCHANGED <<nativeConsole, slotMode, proxied, now, selfTest, nCalls, nReassign, nRuns>>
  /\ UNCHANGED <<mergeVars, popupVars, workerVars, watchVars, messageVars>>

InitStore == InitCapture({AllNative}) /\ NoMerge

NextStore ==
  \/ \E in \in CallInputs : HostCall(in)
  \/ HostClear
  \/ HostLoop

\* The event store of a page that logs heavily.
SpecStore == InitStore /\ [][NextStore]_vars

\* ------------------------------------------------------ the scenario of 3 calls

Stacks == {StackNone, StackShort, StackDeep}

\* info("A"), error("B", {x: 1}), clear()
Scenario ==
  << [method |-> "info",  args |-> <<ArgA>>],
     [method |-> "error", args |-> <<ArgB, ArgObjX1>>],
     [method |-> "clear", args |-> <<>>] >>

\* The page makes the next call of the scenario.
ScenarioCall ==
  /\ Len(calls) < Len(Scenario)
  /\ LET c == Scenario[Len(calls) + 1]
     IN IF c.method = "clear"
        THEN HostClearB(Len(Scenario))
        ELSE \E stack \in Stacks :
               HostCallB([method |-> c.method, args |-> c.args, stack |-> stack], Len(Scenario))

NextScenario ==
  \/ ScenarioCall
  \/ Tick
  \/ SelfTest

SpecScenario == Init /\ [][NextScenario]_vars

\* ------------------------------------------------------- merging, all inputs

\* Longest input sequences of a merge.
MaxChannel == 2
MaxStore == 2

Str10 == "0123456789"
Str100 == Str10 \o Str10 \o Str10 \o Str10 \o Str10 \o Str10 \o Str10 \o Str10 \o Str10 \o Str10
\* two messages that agree on their first 100 characters
MsgLongA == Str100 \o " ready"
MsgLongK == Str100 \o " KAPTIO ready"

\* a debugger stack of two frames, as the background worker formats it
TraceDebugger == "  boot @ app.js:3:9\n  (anonymous) @ app.js:9:1"

\* Events as the background worker builds them from Runtime.consoleAPICalled.
ChannelEvents ==
  { [level |-> "log", message |-> "A", timestamp |-> toISOString(1000),
     url |-> "https://host.example/app.js", stackTrace |-> <<>>],
    [level |-> "log", message |-> "A", timestamp |-> toISOString(1000),
     url |-> "https://host.example/app.js", stackTrace |-> <<TraceDebugger>>],
    [level |-> "log", message |-> "KAPTIO init", timestamp |-> toISOString(100),
     url |-> "https://host.example/app.js", stackTrace |-> <<TraceDebugger>>],
    [level |-> "info", message |-> MsgLongK, timestamp |-> toISOString(999),
     url |-> "", stackTrace |-> <<>>],
    [level |-> "warning", message |-> "B", timestamp |-> toISOString(1000),
     url |-> "", stackTrace |-> <<>>] }

\* Events as the wrappers build them.
StoreEvents ==
  { LogEntry("info", "A", 1000, StackNone),
    LogEntry("log", "A", 1000, StackShort),
    LogEntry("log", "A", 1000, StackDeep),
    LogEntry("log", "KAPTIO init", 100, StackNone),
    LogEntry("info", MsgLongA, 999, StackShort),
    ClearMarker(1000) }

SeqsUpTo(S, n) == UNION {[1..k -> S] : k \in 0..n}

InitMerge ==
  /\ InitCapture({AllNative}) /\ proxied
  /\ debuggerLogs \in SeqsUpTo(ChannelEvents, MaxChannel)
  /\ contentScriptLogs \in SeqsUpTo(StoreEvents, MaxStore)
  /\ merged = <<>>

\* allLogs = mergeLogs(debuggerLogs, consoleLogs.slice())
Merge ==
  /\ merged = <<>>
  /\ merged' = <<mergeLogs(debuggerLogs, contentScriptLogs)>>
  /\ UNCHANGED <<debuggerLogs, contentScriptLogs>>
  /\ UNCHANGED <<captureVars, watchVars, messageVars, workerVars, popupVars>>

NextMerge == Merge

SpecMerge == InitMerge /\ [][NextMerge]_vars

\* ------------------------------------------------------------ the watchdog

\* DOM mutation bursts of the page that a behaviour follows.
MaxMutations == 1

\* content-script.js:240: every tick up to DenseTicks, then every SparseEvery-th
DenseTicks == 150
SparseEvery == 5
\* content-script.js:252
TickCeiling == 3000
\* content-script.js:244
NoteEvery == 50
\* content-script.js:255, the timer's period in ms
IntervalMs == 200
\* content-script.js:271, the observer's window in ms
ObserverWindowMs == 60000
\* the tick that is due when the observer's window ends
ObserverTicks == ObserverWindowMs \div IntervalMs

ShouldApplyDenseOnly(n) == n <= DenseTicks

\* content-script.js:240: checkCount <= 150 || checkCount % 5 === 0
ShouldApply(n) == n <= DenseTicks \/ n % SparseEvery = 0

ShouldStopLate(n) == n > TickCeiling + SparseEvery

\* content-script.js:252: checkCount > 3000
ShouldStop(n) == n > TickCeiling

ObserverFiresAlways(obs) == TRUE

\* A MutationObserver delivers its callback only until disconnect()
\* (content-script.js:259-270).
ObserverFires(obs) == obs = "observing"

\* The content script as a caller.
EngineCaller == [kind |-> "engine", method |-> "", inner |-> <<>>, throws |-> FALSE]
\* `[Kaptio] Re-applied overrides. Captured ${consoleLogs.length} logs so far.`
ArgNote == [isObject |-> FALSE, preview |-> <<>>, json |-> <<"\"[Kaptio]\"">>, str |-> <<"[Kaptio]">>]

\* try { nativeConsole.log(...) } catch (e) {} : a note of the content script on
\* the browser's console; trace follows the page's calls and leaves the notes out.
NativeLog(st) ==
  LET r == Caught(Invoke(nativeConsole["log"], <<ArgNote>>, EngineCaller, StackNone, st))
  IN [r EXCEPT !.trace = st.trace]

\* The longest wait for an installation run, in ticks, of a reassignment made
\* after `at` ticks.
Limit(at) == IF at < DenseTicks THEN 1 ELSE SparseEvery

\* The record of the page's reassignment after an installation run that left
\* the console as con.
AfterRun(r, con, tick) ==
  IF r # <<>> /\ r[1].at # <<>> /\ con[r[1].method] # r[1].fn
  THEN <<[r[1] EXCEPT !.at = <<>>, !.late = (tick - r[1].at[1] > Limit(r[1].at[1]))]>>
  ELSE r

\* One callback of reapplyInterval (content-script.js:236-255).  An exception of
\* applyOverrides leaves the callback before lines 244 and 252.
WatchTick ==
  /\ reapplyInterval = "set"
  /\ checkCount + 1 > ObserverTicks => observer = "disconnected"
  /\ LET n == checkCount + 1
         run == applyOverrides(console)
         threw == ShouldApply(n) /\ run.threw
         con == IF ShouldApply(n) THEN run.con ELSE console
         st0 == [StateNow EXCEPT !.con = con]
         st == IF ShouldApply(n) /\ ~threw /\ n % NoteEvery = 0 THEN NativeLog(st0) ELSE st0
     IN /\ checkCount' = n
        /\ timerRuns' = IF ShouldApply(n) THEN timerRuns + 1 ELSE timerRuns
        /\ Commit(st)
        /\ reassigned' = AfterRun(reassigned, st.con, n)
        /\ reapplyInterval' = IF ~threw /\ ShouldStop(n) THEN "cleared" ELSE "set"
        /\ lastRun' = IF ShouldApply(n) THEN (IF threw THEN "threw" ELSE "returned") ELSE lastRun
  /\ UNCHANGED <<nativeConsole, slotMode, proxied, now, calls, selfTest, nCalls, nReassign,
                 nRuns, looped, observer, observerRuns, mutations>>
  /\ UNCHANGED <<mergeVars, popupVars, workerVars, messageVars>>

\* The page changes its DOM; the observer's callback (content-script.js:259-261)
\* runs applyOverrides while the observer is connected.
DomMutation ==
  /\ mutations < MaxMutations
  /\ mutations' = mutations + 1
  /\ IF ObserverFires(observer)
     THEN /\ console' = applyOverrides(console).con
          /\ observerRuns' = observerRuns + 1
          /\ reassigned' = AfterRun(reassigned, console', checkCount)
          /\ lastRun' = IF applyOverrides(console).threw THEN "threw" ELSE "returned"
     ELSE UNCHANGED <<console, observerRuns, reassigned, lastRun>>
  /\ UNCHANGED <<consoleLogs, nativeConsole, slotMode, proxied, now, trace, calls, selfTest,
                 nCalls, nReassign, nRuns, looped, checkCount, reapplyInterval, observer,
                 timerRuns>>
  /\ UNCHANGED <<mergeVars, popupVars, workerVars, messageVars>>

\* The timeout of content-script.js:269-271.  It is due together with tick
\* ObserverTicks of the timer; either may run first.
ObserverTimeout ==
  /\ observer = "observing"
  /\ checkCount >= ObserverTicks - 1
  /\ observer' = "disconnected"
  /\ UNCHANGED <<captureVars, checkCount, reapplyInterval, timerRuns, observerRuns, mutations,
                 reassigned, lastRun>>
  /\ UNCHANGED <<mergeVars, popupVars, workerVars, messageVars>>

\* While the timer is set the page assigns its own function to a named slot, one
\* that calls the function it replaces or one that does not.
HostReassignAt(method, forwards) ==
  /\ reassigned = <<>>
  /\ reapplyInterval = "set"
  /\ slotMode[method] = "open"
  /\ LET got == ConsoleGet(console, method)
         fn == HostFn(method, IF forwards /\ IsFunction(got.val) THEN <<got.val>> ELSE <<>>, FALSE)
     IN /\ console' = [got.con EXCEPT ![method] = fn]
        /\ reassigned' = <<[method |-> method, fn |-> fn, at |-> <<checkCount>>,
                             dense |-> checkCount < DenseTicks, late |-> FALSE]>>
  /\ UNCHANGED <<consoleLogs, nativeConsole, slotMode, proxied, now, trace, calls, selfTest,
                 nCalls, nReassign, nRuns, looped, checkCount, reapplyInterval, observer,
                 timerRuns, observerRuns, mutations, lastRun>>
  /\ UNCHANGED <<mergeVars, popupVars, workerVars, messageVars>>

\* The page makes console.clear non-writable and non-configurable; from then on
\* applyOverrides throws at line 218.
HostLockClear ==
  /\ slotMode["clear"] = "open"
  /\ slotMode' = [slotMode EXCEPT !["clear"] = "locked"]
  /\ UNCHANGED <<consoleLogs, nativeConsole, console, proxied, now, trace, calls, selfTest,
                 nCalls, nReassign, nRuns, looped>>
  /\ UNCHANGED <<mergeVars, popupVars, workerVars, watchVars, messageVars>>

InitWatchdog == InitCapture({AllNative}) /\ NoMerge

NextWatchdog ==
  \/ WatchTick
  \/ DomMutation
  \/ ObserverTimeout
  \/ \E fw \in BOOLEAN : HostReassignAt("log", fw)

\* The watchdog over the life of a page.
SpecWatchdog == InitWatchdog /\ [][NextWatchdog]_vars

\* The two timers alone, on a page that may lock console.clear.
NextTimers ==
  \/ WatchTick
  \/ ObserverTimeout
  \/ HostLockClear

\* The steps of WatchTick and of ObserverTimeout, by their guards and the
\* variable each of them always changes.
TickDue ==
  /\ reapplyInterval = "set"
  /\ checkCount + 1 > ObserverTicks => observer = "disconnected"
  /\ checkCount' = checkCount + 1
TimeoutDue ==
  /\ observer = "observing"
  /\ checkCount >= ObserverTicks - 1
  /\ observer' = "disconnected"

\* The browser runs a timer callback that is due.
SpecWatchdogFair ==
  InitWatchdog /\ [][NextTimers]_vars /\ WF_checkCount(TickDue) /\ WF_observer(TimeoutDue)

\* ------------------------------------------------- a console that rejects

\* The slots the page locks in the model: one named function and clear.
LockSlots == {"log", "clear"}

\* The console as the content script finds it: every slot writable, or one slot
\* made non-writable and non-configurable by the page before the script ran.
ActivationModes == {AllOpen} \cup {[AllOpen EXCEPT ![s] = "locked"] : s \in LockSlots}

\* The page makes a slot non-writable and non-configurable: defineProperty and
\* assignment (strict mode, content-script.js:7) both throw on it.
HostLock(slot) ==
  /\ nReassign < MaxReassign
  /\ slotMode[slot] = "open"
  /\ slotMode' = [slotMode EXCEPT ![slot] = "locked"]
  /\ nReassign' = nReassign + 1
  /\ UNCHANGED <<consoleLogs, nativeConsole, console, proxied, now, trace, calls, selfTest,
                 nCalls, nRuns, looped>>
  /\ UNCHANGED <<mergeVars, popupVars, workerVars, watchVars, messageVars>>

\* The host environment accepts installation on the slot again.
HostUnlock(slot) ==
  /\ nReassign < MaxReassign
  /\ slotMode[slot] = "locked"
  /\ slotMode' = [slotMode EXCEPT ![slot] = "open"]
  /\ nReassign' = nReassign + 1
  /\ UNCHANGED <<consoleLogs, nativeConsole, console, proxied, now, trace, calls, selfTest,
                 nCalls, nRuns, looped>>
  /\ UNCHANGED <<mergeVars, popupVars, workerVars, watchVars, messageVars>>

InitRejecting == InitCaptureIn({AllNative}, ActivationModes) /\ NoMerge

NextRejecting ==
  \/ WatchTick
  \/ DomMutation
  \/ ObserverTimeout
  \/ \E s \in LockSlots : HostLock(s)
  \/ \E s \in LockSlots : HostUnlock(s)

\* Activation and the watchdog on a console whose slots the host may lock.
SpecRejecting == InitRejecting /\ [][NextRejecting]_vars

\* --------------------------------------------------------- capture requests

\* Requests of the popup that a behaviour follows.
MaxRequests == 1

\* the calls of the page while requests are served
CaptureCalls == {in \in CallInputs : in.args = <<ArgA>>}

\* Runtime.consoleAPICalled events as background.js:54-67 records them (no
\* stackTrace property), for the tab of the content script
DebuggerEvents == {ev \in ChannelEvents : ev.stackTrace = <<>> /\ ev.message = "A"}

PushDebuggerLogUncapped(logs, log) == Append(logs, log)

\* background.js:69-74
PushDebuggerLog(logs, log) ==
  LET pushed == Append(logs, log)
  IN IF Len(pushed) > MaxLogs THEN Tail(pushed) ELSE pushed

\* The background worker's onEvent listener (background.js:46-76) buffers a
\* console event of the tab.
DebuggerEvent(ev) ==
  /\ Len(consoleLogsFromDebugger[ThisTab]) < MaxChannel
  /\ consoleLogsFromDebugger' =
       [consoleLogsFromDebugger EXCEPT ![ThisTab] = PushDebuggerLog(@, ev)]
  /\ UNCHANGED <<captureVars, mergeVars, popupVars, workerVars, watchVars, captures, responses, outbox>>

CaptureLogsMerged == mergeLogs(consoleLogsFromDebugger[ThisTab], consoleLogs)

\* content-script.js:437: const allLogs = consoleLogs.slice()
CaptureLogs == consoleLogs

\* capturePage arrives (content-script.js:419-443): notes on the native console,
\* allLogs taken, captureScreenshot() asks the background worker for a screenshot.
\* received keeps what the store and the channel held at that instant.
CaptureRequestB(bound) ==
  /\ Len(captures) + Len(responses) < bound
  /\ Commit(NativeLog(NativeLog(NativeLog(StateNow))))
  /\ captures' = Append(captures,
                    [allLogs |-> CaptureLogs,
                     received |-> [store |-> consoleLogs,
                                   channel |-> consoleLogsFromDebugger[ThisTab]],
                     id |-> Len(captures) + Len(responses) + 1,
                     stage |-> "asked"])
  /\ outbox' = Append(outbox, [action |-> "captureScreenshot", consoleLogs |-> <<>>])
  /\ UNCHANGED <<nativeConsole, slotMode, proxied, now, calls, selfTest, nCalls, nReassign,
                 nRuns, looped, responses, consoleLogsFromDebugger>>
  /\ UNCHANGED <<mergeVars, popupVars, workerVars, watchVars>>

CaptureRequest == CaptureRequestB(MaxRequests)

ResponseLogsLate(allLogs, storeNow) == storeNow

\* content-script.js:448 and 473: consoleLogs: allLogs
ResponseLogs(allLogs, storeNow) == allLogs

\* The screenshot promise of a pending capture settles (content-script.js:443-479):
\* the handler sends storeData and responds; if it throws before that ("error"),
\* the catch block responds alone.
ScreenshotDone(i, outcome) ==
  /\ i \in 1..Len(captures)
  /\ LET c == captures[i]
         logs == ResponseLogs(c.allLogs, consoleLogs)
         response == [request |-> "capturePage", consoleLogs |-> logs,
                      screenshot |-> IF outcome = "png" THEN <<"png">> ELSE <<>>,
                      received |-> c.received, storeAtSend |-> consoleLogs,
                      id |-> c.id]
     IN /\ captures' = SubSeq(captures, 1, i - 1) \o SubSeq(captures, i + 1, Len(captures))
        /\ responses' = Append(responses, response)
        /\ outbox' = IF outcome = "error" THEN outbox
                     ELSE Append(outbox, [action |-> "storeData", consoleLogs |-> logs])
  /\ UNCHANGED <<captureVars, mergeVars, popupVars, workerVars, watchVars, consoleLogsFromDebugger>>

SettledImageOnly(stage) == stage = "image"

\* captureScreenshot()'s promise has resolved (content-script.js:324-371): with the
\* image of the background worker (330-331) or of html2canvas (355-356, 367-368),
\* or with null (357-359, 369).
Settled(stage) == stage \in {"image", "none"}

\* The background worker answers captureScreenshot (background.js:99-111): the
\* callback of content-script.js:328-335 resolves with the image, or starts the
\* html2canvas fallback when the response carries none.
PlatformCaptured(i, ok) ==
  /\ i \in 1..Len(captures)
  /\ captures[i].stage = "asked"
  /\ captures' = [captures EXCEPT ![i].stage = IF ok THEN "image" ELSE "fallback"]
  /\ UNCHANGED <<captureVars, mergeVars, popupVars, workerVars, watchVars, responses,
                 outbox, consoleLogsFromDebugger>>

\* captureWithHtml2Canvas() resolves (content-script.js:343-371): with the data URL
\* of the canvas, or with null when the library does not load or rejects.
FallbackDone(i, ok) ==
  /\ i \in 1..Len(captures)
  /\ captures[i].stage = "fallback"
  /\ captures' = [captures EXCEPT ![i].stage = IF ok THEN "image" ELSE "none"]
  /\ UNCHANGED <<captureVars, mergeVars, popupVars, workerVars, watchVars, responses,
                 outbox, consoleLogsFromDebugger>>

\* The then-handler of content-script.js:443-479 runs once the promise has
\* resolved; when it throws before sendResponse the catch block answers.
CaptureAnswered(i, throws) ==
  /\ i \in 1..Len(captures)
  /\ Settled(captures[i].stage)
  /\ ScreenshotDone(i, IF throws THEN "error"
                       ELSE IF captures[i].stage = "image" THEN "png" ELSE "none")

\* the capturePage requests of the acquisition scenario
MaxAcquire == 1

AcquireStep ==
  \E i \in 1..MaxAcquire, b \in BOOLEAN :
    PlatformCaptured(i, b) \/ FallbackDone(i, b) \/ CaptureAnswered(i, b)

\* the page's calls while screenshots are acquired
MaxAcquireCalls == 3

NextAcquire ==
  \/ \E in \in CaptureCalls : HostCallB(in, MaxAcquireCalls)
  \/ CaptureRequestB(MaxAcquire)
  \/ \E i \in 1..MaxAcquire, ok \in BOOLEAN : PlatformCaptured(i, ok)
  \/ \E i \in 1..MaxAcquire, ok \in BOOLEAN : FallbackDone(i, ok)
  \/ \E i \in 1..MaxAcquire, throws \in BOOLEAN : CaptureAnswered(i, throws)

\* capturePage requests with the screenshot acquired step by step; a promise
\* reaction that is due is run by the event loop.
InitAcquire == InitCapture({AllNative}) /\ proxied /\ NoMerge

SpecAcquire == InitAcquire /\ [][NextAcquire]_vars /\ WF_vars(AcquireStep)

getLogsResponseMerged ==
  [request |-> "getLogs", consoleLogs |-> mergeLogs(consoleLogsFromDebugger[ThisTab], consoleLogs),
   screenshot |-> <<>>,
   received |-> [store |-> consoleLogs, channel |-> consoleLogsFromDebugger[ThisTab]],
   storeAtSend |-> consoleLogs, id |-> 0]

\* content-script.js:489-493
getLogsResponse ==
  [request |-> "getLogs", consoleLogs |-> consoleLogs, screenshot |-> <<>>,
   received |-> [store |-> consoleLogs, channel |-> consoleLogsFromDebugger[ThisTab]],
   storeAtSend |-> consoleLogs, id |-> 0]

\* getLogs arrives (content-script.js:484-495).
GetLogs ==
  /\ Len(captures) + Len(responses) < MaxRequests
  /\ Commit(NativeLog(StateNow))
  /\ responses' = Append(responses, getLogsResponse)
  /\ UNCHANGED <<nativeConsole, slotMode, proxied, now, calls, selfTest, nCalls, nReassign,
                 nRuns, looped, captures, outbox, consoleLogsFromDebugger>>
  /\ UNCHANGED <<mergeVars, popupVars, workerVars, watchVars>>

InitRequests == InitCapture({AllNative}) /\ proxied /\ NoMerge

NextRequests ==
  \/ \E in \in CaptureCalls : HostCall(in)
  \/ Tick
  \/ \E ev \in DebuggerEvents : DebuggerEvent(ev)
  \/ CaptureRequest
  \/ \E i \in 1..MaxRequests, outcome \in {"png", "error"} : ScreenshotDone(i, outcome)
  \/ GetLogs

\* The message handlers of the content script while the page logs.
SpecRequests == InitRequests /\ [][NextRequests]_vars

\* ---------------------------------------------------- the background worker

\* Requests the background worker answers in a behaviour.
MaxWorkerRequests == 2
\* Page loads in a behaviour.
MaxNavigations == 1
\* Events a tab's buffer holds in the worker's specifications.
MaxBuffered == 1

\* null or undefined, where a property of an event is read
Null == "<null>"

\* A RemoteObject of the DevTools protocol, by what the listener reads of it:
\* value (<<>> when undefined) and preview.description (preview <<>> when absent).
RemoteString(v) == [value |-> <<v>>, preview |-> <<>>]
RemoteObject(description) == [value |-> <<>>, preview |-> <<[description |-> description]>>]
RemoteOpaque == [value |-> <<>>, preview |-> <<>>]

\* The callback of params.args.map (background.js:56-64); String(arg) of a
\* RemoteObject is "[object Object]".
RemoteArgText(arg) ==
  IF arg.value # <<>> THEN arg.value[1]
  ELSE IF arg.preview # <<>>
       THEN IF arg.preview[1].description # <<>> /\ arg.preview[1].description[1] # ""
            THEN arg.preview[1].description[1]
            ELSE "[object Object]"
       ELSE "[object Object]"

\* The params of Runtime.consoleAPICalled for a call at instant ms: with a stack
\* trace and a frame, without stack trace, and with a stack trace of no frames.
ConsoleParams(ms) ==
  { [type |-> "log", args |-> <<RemoteString("A")>>, timestamp |-> ms,
     stackTrace |-> <<[callFrames |-> <<[url |-> "https://host.example/app.js"]>>]>>],
    [type |-> "warning", args |-> <<RemoteObject(<<"Object">>), RemoteOpaque>>,
     timestamp |-> ms, stackTrace |-> <<>>],
    [type |-> "error", args |-> <<RemoteObject(<<>>)>>, timestamp |-> ms,
     stackTrace |-> <<[callFrames |-> <<>>]>>] }

FrameUrlOptional(params) ==
  IF params.stackTrace # <<>> /\ params.stackTrace[1].callFrames # <<>>
  THEN params.stackTrace[1].callFrames[1].url
  ELSE Null

\* background.js:66
FrameUrl(params) ==
  IF params.stackTrace # <<>> /\ params.stackTrace[1].callFrames # <<>>
  THEN params.stackTrace[1].callFrames[1].url
  ELSE ""

\* The log the listener builds (background.js:54-67); it has no stackTrace
\* property.
DebuggerLog(params) ==
  [level |-> params.type,
   message |-> JoinStrings([i \in 1..Len(params.args) |-> RemoteArgText(params.args[i])], " "),
   timestamp |-> toISOString(params.timestamp),
   url |-> FrameUrl(params),
   stackTrace |-> <<>>]

\* the console calls the channel reports in the worker's specifications
WorkerParams(ms) == {p \in ConsoleParams(ms) : p.type = "log"}

\* The listener of chrome.debugger.onEvent for Runtime.consoleAPICalled
\* (background.js:46-76) runs for an event of tabId.
OnEventOf(tabId, params) ==
  /\ consoleLogsFromDebugger' =
       [consoleLogsFromDebugger EXCEPT ![tabId] = PushDebuggerLog(@, DebuggerLog(params))]
  /\ UNCHANGED <<captureVars, mergeVars, popupVars, watchVars, captures, responses, outbox, workerVars>>

\* A tab the debugger is attached to reports a console call made now.
OnEvent(tabId, params) ==
  /\ tabId \in attached
  /\ Len(consoleLogsFromDebugger[tabId]) < MaxBuffered
  /\ OnEventOf(tabId, params)

RECURSIVE PushDebuggerLogs(_, _, _)
\* the listener has run n times for the same console call
PushDebuggerLogs(n, logs, log) ==
  IF n = 0 THEN logs
  ELSE IF n = 1 THEN PushDebuggerLog(logs, log)
  ELSE LET half == PushDebuggerLogs(n \div 2, logs, log)
       IN IF Len(half) = 0 THEN half     \* never: the first half is computed first
          ELSE PushDebuggerLogs(n - (n \div 2), half, log)

\* The page of an attached tab logs in a loop: LoopLen events of console.log.
OnEventBurst(tabId) ==
  /\ tabId \in attached
  /\ consoleLogsFromDebugger[tabId] = <<>>
  /\ \E p \in WorkerParams(now) :
       consoleLogsFromDebugger' =
         [consoleLogsFromDebugger EXCEPT ![tabId] = PushDebuggerLogs(LoopLen, @, DebuggerLog(p))]
  /\ UNCHANGED <<captureVars, mergeVars, popupVars, watchVars, captures, responses, outbox, workerVars>>

\* Console calls other than console.log that a tab reports after its loop.
MaxExtra == 2

\* the events of a buffer that are not of console.log
Extras(logs) == SelectSeq(logs, LAMBDA l : l.level # "log")

\* An attached tab whose buffer is about full reports a console call other than
\* console.log.
OnEventExtra(tabId, params) ==
  /\ tabId \in attached
  /\ Len(consoleLogsFromDebugger[tabId]) >= LoopLen
  /\ Len(Extras(consoleLogsFromDebugger[tabId])) < MaxExtra
  /\ params.type # "log"
  /\ OnEventOf(tabId, params)

attachDebuggerReset(att, open, logs, tabId) ==
  [attached |-> IF tabId \in open THEN att \cup {tabId} ELSE att,
   logs |-> [logs EXCEPT ![tabId] = <<>>],
   threw |-> FALSE]

\* attachDebugger (background.js:16-31) on the tabs the debugger is attached to,
\* the open tabs and the buffers: chrome.debugger.attach rejects for a tab that
\* is attached already or is gone, and the catch block logs it; otherwise the
\* tab's buffer is created unless it exists.
attachDebugger(att, open, logs, tabId) ==
  IF tabId \in att \/ tabId \notin open
  THEN [attached |-> att, logs |-> logs, threw |-> FALSE]
  ELSE [attached |-> att \cup {tabId},
        logs |-> [logs EXCEPT ![tabId] = IF @ = <<>> THEN <<>> ELSE @],
        threw |-> FALSE]

detachDebuggerUncaught(att, tabId) ==
  [attached |-> att \ {tabId}, threw |-> tabId \notin att]

\* detachDebugger (background.js:36-43): chrome.debugger.detach rejects for a tab
\* that is not attached or is gone, and the catch block swallows it.
detachDebugger(att, tabId) ==
  IF tabId \in att
  THEN [attached |-> att \ {tabId}, threw |-> FALSE]
  ELSE [attached |-> att, threw |-> FALSE]

\* A reply of the background worker.
Reply(request, tabId, success, logs) ==
  [request |-> request, tabId |-> tabId, success |-> success, logs |-> logs]

\* onMessage attachDebugger (background.js:80-89)
AttachRequest(tabId) ==
  /\ Len(replies) < MaxWorkerRequests
  /\ LET a == attachDebugger(attached, openTabs, consoleLogsFromDebugger, tabId)
     IN /\ attached' = a.attached
        /\ consoleLogsFromDebugger' = a.logs
        /\ replies' = Append(replies, Reply("attachDebugger", tabId, ~a.threw, <<>>))
  /\ requested' = requested \cup {tabId}
  /\ UNCHANGED <<captureVars, mergeVars, popupVars, watchVars, captures, responses, outbox,
                 capturedData, openTabs, navigatedAt, detachCalls>>

\* onMessage getDebuggerLogs (background.js:91-97)
GetDebuggerLogs(tabId) ==
  /\ Len(replies) < MaxWorkerRequests
  /\ replies' = Append(replies, Reply("getDebuggerLogs", tabId, TRUE,
                                      consoleLogsFromDebugger[tabId]))
  /\ UNCHANGED <<captureVars, mergeVars, popupVars, watchVars, messageVars, capturedData, attached,
                 openTabs, requested, navigatedAt, detachCalls>>

\* capturedData after the storeData handler (background.js:113-129) has run for
\* a message of the tab's content script.
storeData(data, tabId, logs) == [data EXCEPT ![tabId] = <<[consoleLogs |-> logs]>>]

\* onMessage storeData: a content script of some tab, with an empty store, has
\* answered a capturePage request.
StoreEmptyData(tabId) ==
  /\ tabId \in openTabs
  /\ capturedData' = storeData(capturedData, tabId, <<>>)
  /\ UNCHANGED <<captureVars, mergeVars, popupVars, watchVars, messageVars, attached, openTabs,
                 requested, navigatedAt, replies, detachCalls>>

\* onMessage storeData: the first storeData message of the content script, whose
\* sender is ThisTab, arrives; the handler does not ask whether the tab is still
\* there.
StoreData ==
  /\ \E i \in 1..Len(outbox) :
       /\ outbox[i].action = "storeData"
       /\ \A j \in 1..(i - 1) : outbox[j].action # "storeData"
       /\ capturedData' = storeData(capturedData, ThisTab, outbox[i].consoleLogs)
       /\ outbox' = SubSeq(outbox, 1, i - 1) \o SubSeq(outbox, i + 1, Len(outbox))
  /\ UNCHANGED <<captureVars, mergeVars, popupVars, watchVars, captures, responses,
                 consoleLogsFromDebugger, attached, openTabs, requested, navigatedAt,
                 replies, detachCalls>>

\* onMessage getData (background.js:131-143): tabId is the active tab.
GetData(tabId) ==
  /\ Len(replies) < MaxWorkerRequests
  /\ tabId \in openTabs
  /\ replies' = Append(replies,
                  Reply("getData", tabId, TRUE,
                        IF capturedData[tabId] # <<>> THEN capturedData[tabId][1].consoleLogs
                        ELSE <<>>))
  /\ UNCHANGED <<captureVars, mergeVars, popupVars, watchVars, messageVars, capturedData, attached,
                 openTabs, requested, navigatedAt, detachCalls>>

\* A page context begins in ThisTab: the content script runs afresh (store empty,
\* wrappers installed, timers set) and the handlers of the context before it are
\* gone with their pending captures; what they sent stays sent.
ContextStart ==
  /\ consoleLogs' = <<>>
  /\ LET a == initConsoleCapture(nativeConsole)
     IN /\ console' = a.con
        /\ lastRun' = a.lastRun
        /\ reapplyInterval' = a.reapplyInterval
        /\ observer' = a.observer
  /\ trace' = <<>> /\ calls' = <<>> /\ selfTest' = "pending"
  /\ checkCount' = 0 /\ timerRuns' = 0 /\ observerRuns' = 0 /\ reassigned' = <<>>
  /\ captures' = <<>>
  /\ UNCHANGED <<nativeConsole, slotMode, proxied, nCalls, nReassign, nRuns, looped,
                 mutations, responses, outbox>>

\* chrome.tabs.onUpdated with status 'loading' on an http(s) page
\* (background.js:154-159): the tab loads a page, and the listener calls
\* attachDebugger for it.
TabUpdated(tabId) ==
  /\ tabId \in openTabs
  /\ now < ClockStart + MaxNavigations
  /\ now' = now + 1
  /\ navigatedAt' = [navigatedAt EXCEPT ![tabId] = now']
  /\ LET a == attachDebugger(attached, openTabs, consoleLogsFromDebugger, tabId)
     IN /\ attached' = a.attached
        /\ consoleLogsFromDebugger' = a.logs
  /\ IF tabId = ThisTab
     THEN ContextStart
     ELSE UNCHANGED <<consoleLogs, nativeConsole, console, slotMode, proxied, trace, calls,
                      selfTest, nCalls, nReassign, nRuns, looped, watchVars, captures,
                      responses, outbox>>
  /\ UNCHANGED <<mergeVars, popupVars, capturedData, openTabs, requested, replies, detachCalls>>

\* chrome.tabs.onRemoved (background.js:147-151): the tab is closed.  Chrome may
\* have released the debugger already when detachDebugger runs.  With ThisTab
\* its content script is gone; what it has sent stays sent.
TabRemoved(tabId) ==
  /\ tabId \in openTabs
  /\ openTabs' = openTabs \ {tabId}
  /\ capturedData' = [capturedData EXCEPT ![tabId] = <<>>]
  /\ consoleLogsFromDebugger' = [consoleLogsFromDebugger EXCEPT ![tabId] = <<>>]
  /\ \E released \in BOOLEAN :
       LET att == IF released THEN attached \ {tabId} ELSE attached
           d == detachDebugger(att, tabId)
       IN /\ attached' = d.attached
          /\ detachCalls' = Append(detachCalls,
                              [tabId |-> tabId, wasAttached |-> tabId \in att,
                               hadDebugger |-> tabId \in attached, threw |-> d.threw])
  /\ IF tabId = ThisTab
     THEN /\ consoleLogs' = <<>> /\ captures' = <<>>
          /\ UNCHANGED <<nativeConsole, console, slotMode, proxied, now, trace, calls,
                         selfTest, nCalls, nReassign, nRuns, looped, watchVars, responses,
                         outbox>>
     ELSE UNCHANGED <<captureVars, watchVars, captures, responses, outbox>>
  /\ UNCHANGED <<mergeVars, popupVars, requested, navigatedAt, replies>>

InitWorker == InitCapture({AllNative}) /\ proxied /\ NoMerge

NextWorker ==
  \/ \E t \in Tabs : AttachRequest(t)
  \/ \E t \in Tabs : \E p \in WorkerParams(now) : OnEvent(t, p)
  \/ \E t \in Tabs : TabUpdated(t)
  \/ \E t \in Tabs : TabRemoved(t)
  \/ \E t \in Tabs : StoreEmptyData(t)

\* The background worker over the life of the tabs.
SpecWorker == InitWorker /\ [][NextWorker]_vars

\* Calls of the page in the specification of the events.
MaxEventCalls == 1

InitEvents == InitCapture({AllNative}) /\ proxied /\ NoMerge

NextEvents ==
  \/ \E in \in CallInputs : HostCallB(in, MaxEventCalls)
  \/ HostClearB(MaxEventCalls)
  \/ \E t \in Tabs : AttachRequest(t)
  \/ \E t \in Tabs : \E p \in ConsoleParams(now) : OnEvent(t, p)

\* The events of the page's calls as the store and the channel's buffers get them.
SpecEvents == InitEvents /\ [][NextEvents]_vars

\* The page of ThisTab logs, is captured and is asked for its events, the worker
\* is asked for what it holds of the tab, and the tab loads a new page.
InitContexts == InitCapture({AllNative}) /\ proxied /\ NoMerge

NextContexts ==
  \/ \E in \in CaptureCalls : HostCallB(in, MaxEventCalls)
  \/ CaptureRequest
  \/ \E i \in 1..MaxRequests : ScreenshotDone(i, "png")
  \/ StoreData
  \/ GetLogs
  \/ AttachRequest(ThisTab)
  \/ \E p \in WorkerParams(now) : OnEvent(ThisTab, p)
  \/ TabUpdated(ThisTab)
  \/ GetData(ThisTab)
  \/ GetDebuggerLogs(ThisTab)

\* The page contexts of one tab and the requests about the tab.
SpecContexts == InitContexts /\ [][NextContexts]_vars

\* ------------------------------------------------------- the popup's steps

\* Submit events of the form in a behaviour.
MaxSubmissions == 2

\* What loadCapturedData resolves with (popup.js:25-62): the content script's
\* answer to capturePage, or no logs and no screenshot when the tab has no
\* content script to answer.
LoadedData ==
  {NoPopupData} \cup
  {[consoleLogs |-> responses[i].consoleLogs, screenshot |-> responses[i].screenshot] :
     i \in {k \in 1..Len(responses) : responses[k].request = "capturePage"}}

\* The end of init's try block (popup.js:258-262): updateCaptureStatus, then
\* renderPreviews, which writes to the document and may throw into the catch
\* block.
FinishInit(complete, renderThrows) ==
  /\ captureComplete' = complete
  /\ LET ui == updateCaptureStatus(complete, submitDisabled)
     IN submitDisabled' = ui.disabled /\ formPointerEvents' = ui.pointerEvents
  /\ popupPc' = IF renderThrows THEN "failed" ELSE "ready"

\* loadCapturedData resolves (popup.js:237-256): the logs are marked captured,
\* and the screenshot when there is one; without it init waits 500 ms.
PopupDataLoaded(data, renderThrows) ==
  /\ popupPc = "loading"
  /\ popupData' = data
  /\ IF data.screenshot # <<>>
     THEN FinishInit([logs |-> TRUE, screenshot |-> TRUE], renderThrows)
     ELSE /\ captureComplete' = [captureComplete EXCEPT !.logs = TRUE]
          /\ popupPc' = "waiting"
          /\ UNCHANGED <<submitDisabled, formPointerEvents>>
  /\ UNCHANGED <<captureVars, mergeVars, watchVars, messageVars, workerVars, inFlight, nSubmit,
                 reports>>

\* The 500 ms have passed (popup.js:254-262).
PopupWaitElapsed(renderThrows) ==
  /\ popupPc = "waiting"
  /\ FinishInit([captureComplete EXCEPT !.screenshot = TRUE], renderThrows)
  /\ UNCHANGED <<captureVars, mergeVars, watchVars, messageVars, workerVars, popupData,
                 inFlight, nSubmit, reports>>

\* The await of loadCapturedData throws into the catch block (popup.js:263-267).
PopupLoadFails ==
  /\ popupPc = "loading"
  /\ popupPc' = "failed"
  /\ UNCHANGED <<captureVars, mergeVars, watchVars, messageVars, workerVars, captureComplete,
                 submitDisabled, formPointerEvents, popupData, inFlight, nSubmit, reports>>

\* The catch block's timer (popup.js:270-273) makes the form accept the pointer
\* again; the button is not touched.
PopupFormReenabled ==
  /\ popupPc = "failed"
  /\ popupPc' = "reenabled"
  /\ formPointerEvents' = "auto"
  /\ UNCHANGED <<captureVars, mergeVars, watchVars, messageVars, workerVars, captureComplete,
                 submitDisabled, popupData, inFlight, nSubmit, reports>>

\* The form's submit event (popup.js:278-287), which the user raises through the
\* enabled button; submitIssue runs to its fetch (popup.js:115-146).
Submit ==
  /\ popupPc # "closed"
  /\ ~submitDisabled
  /\ nSubmit < MaxSubmissions
  /\ submitDisabled' = TRUE
  /\ inFlight' = inFlight + 1
  /\ nSubmit' = nSubmit + 1
  /\ UNCHANGED <<captureVars, mergeVars, watchVars, messageVars, workerVars, captureComplete,
                 formPointerEvents, popupPc, popupData, reports>>

\* The server answers or the request fails (popup.js:148-178): on failure the
\* button is enabled again; on success it stays disabled, and clearLogs is sent to
\* the background worker for the tab (popup.js:156-163).
SubmitAnswered(ok) ==
  /\ popupPc # "closed"
  /\ inFlight > 0
  /\ inFlight' = inFlight - 1
  /\ submitDisabled' = IF ok THEN submitDisabled ELSE FALSE
  /\ reports' = IF ok THEN Append(reports, [consoleLogs |-> popupData.consoleLogs,
                                           nCalls |-> nCalls,
                                           requests |-> Len(captures) + Len(responses)])
                ELSE reports
  /\ outbox' = IF ok THEN Append(outbox, [action |-> "clearLogs", consoleLogs |-> <<>>])
               ELSE outbox
  /\ UNCHANGED <<captureVars, mergeVars, watchVars, workerVars, captures, responses,
                 consoleLogsFromDebugger, captureComplete, formPointerEvents, popupPc,
                 popupData, nSubmit>>

\* The background worker's onMessage listener (background.js:79-144) gets the
\* clearLogs message: none of its branches is for that action.
ClearLogs ==
  /\ \E i \in 1..Len(outbox) :
       /\ outbox[i].action = "clearLogs"
       /\ outbox' = SubSeq(outbox, 1, i - 1) \o SubSeq(outbox, i + 1, Len(outbox))
  /\ UNCHANGED <<captureVars, mergeVars, watchVars, workerVars, popupVars, captures,
                 responses, consoleLogsFromDebugger>>

\* window.close() three seconds after a successful submission (popup.js:166-168).
PopupClosed ==
  /\ popupPc # "closed"
  /\ nSubmit > 0 /\ inFlight = 0 /\ submitDisabled
  /\ popupPc' = "closed"
  /\ UNCHANGED <<captureVars, mergeVars, watchVars, messageVars, workerVars, captureComplete,
                 submitDisabled, formPointerEvents, popupData, inFlight, nSubmit, reports>>

InitPopupOpen == InitCapture({AllNative}) /\ proxied /\ NoMerge

NextPopup ==
  \/ \E in \in CaptureCalls : HostCallB(in, MaxEventCalls)
  \/ CaptureRequest
  \/ \E i \in 1..MaxRequests, outcome \in {"png", "error"} : ScreenshotDone(i, outcome)
  \/ \E data \in LoadedData, renderThrows \in BOOLEAN : PopupDataLoaded(data, renderThrows)
  \/ \E renderThrows \in BOOLEAN : PopupWaitElapsed(renderThrows)
  \/ PopupLoadFails
  \/ PopupFormReenabled
  \/ Submit
  \/ \E ok \in BOOLEAN : SubmitAnswered(ok)
  \/ PopupClosed

\* The popup from its opening to its closing, over the tab's content script.
SpecPopup == InitPopupOpen /\ [][NextPopup]_vars

\* The popup with its timers running: the 500 ms wait of init and the 2 s timer
\* of its catch block fire when due.
SpecPopupFair ==
  /\ InitPopupOpen /\ [][NextPopup]_vars
  /\ WF_vars(\E renderThrows \in BOOLEAN : PopupWaitElapsed(renderThrows))
  /\ WF_vars(PopupFormReenabled)

\* Capture requests in the life of a popup that is opened again after a report.
MaxReports == 2

NextReport ==
  \/ \E in \in CaptureCalls : HostCallB(in, MaxEventCalls)
  \/ CaptureRequestB(MaxReports)
  \/ \E i \in 1..MaxReports : ScreenshotDone(i, "png")
  \/ \E data \in LoadedData : PopupDataLoaded(data, FALSE)
  \/ PopupWaitElapsed(FALSE)
  \/ Submit
  \/ \E ok \in BOOLEAN : SubmitAnswered(ok)
  \/ ClearLogs

\* A report is submitted and the tab is captured again.
SpecReport == InitPopupOpen /\ [][NextReport]_vars

\* A console call that a tab reported while the debugger was attached reaches the
\* listener after chrome.tabs.onRemoved has been handled for the tab.
OnEventLate(tabId, params) ==
  /\ tabId \notin openTabs
  /\ \E i \in 1..Len(detachCalls) : detachCalls[i].tabId = tabId /\ detachCalls[i].hadDebugger
  /\ Len(consoleLogsFromDebugger[tabId]) < MaxBuffered
  /\ OnEventOf(tabId, params)

InitLate == InitCapture({AllNative}) /\ proxied /\ NoMerge

NextLate ==
  \/ ThisTab \in openTabs /\ \E in \in CaptureCalls : HostCallB(in, MaxEventCalls)
  \/ ThisTab \in openTabs /\ CaptureRequest
  \/ ThisTab \in openTabs /\ \E i \in 1..MaxRequests : ScreenshotDone(i, "png")
  \/ StoreData
  \/ \E t \in Tabs : AttachRequest(t)
  \/ \E t \in Tabs : \E p \in WorkerParams(now) : OnEvent(t, p)
  \/ \E t \in Tabs : TabRemoved(t)
  \/ \E t \in Tabs : \E p \in WorkerParams(now) : OnEventLate(t, p)

\* Tabs close while the worker still has calls, events and messages of theirs to
\* handle.
SpecLate == InitLate /\ [][NextLate]_vars

InitBuffers == InitCapture({AllNative}) /\ proxied /\ NoMerge

NextBuffers ==
  \/ \E t \in Tabs : AttachRequest(t)
  \/ \E t \in Tabs : OnEventBurst(t)
  \/ \E t \in Tabs : \E p \in ConsoleParams(now) : OnEventExtra(t, p)
  \/ \E t \in Tabs : GetDebuggerLogs(t)

\* The channel's buffers under tabs that log heavily.
SpecBuffers == InitBuffers /\ [][NextBuffers]_vars

\* ================================================================== claims

\* The records of `seq` that are invocations of f, and those that are
\* invocations made by wrapper w of the function it was created around.
InvocationsOf(seq, f) == SelectSeq(seq, LAMBDA r : r.op = "call" /\ r.fn = f)
ForwardsOf(seq, w) ==
  SelectSeq(seq, LAMBDA r : r.op = "call" /\ r.by = w /\ r.fn = w.inner[1])
ArgLists(seq) == [i \in 1..Len(seq) |-> seq[i].args]
Pushes(seq) == SelectSeq(seq, LAMBDA r : r.op = "push")
\* The wrappers created around a function that have been called so far.
WrappersCalled ==
  {trace[i].fn : i \in {j \in 1..Len(trace) :
      trace[j].op = "call" /\ trace[j].fn.kind = "wrapper" /\ trace[j].fn.inner # <<>>}}

\* C1: for every sequence of calls through an installed wrapper, the function the
\* wrapper was created around is invoked once per call, with the same argument
\* list, in the same order.
C1_ForwardsEveryCall ==
  \A w \in WrappersCalled :
    ArgLists(ForwardsOf(trace, w)) = ArgLists(InvocationsOf(trace, w))

\* C2: in every reachable state the event store consoleLogs holds at most 500
\* events, whatever mix of log, warn, error, info, debug and clear calls was made.
C2_StoreAtMost500 == Len(consoleLogs) <= 500

\* What one step added to the trace.
Added == SubSeq(trace', Len(trace) + 1, Len(trace'))

\* C3: an event appended to a store that holds 500 events removes exactly the
\* oldest entry, becomes the last entry and leaves the order of the others as it
\* was; the append is never rejected.
C3_AppendToFullStoreEvictsOldest ==
  [][ (Len(consoleLogs) = 500 /\ Len(Pushes(Added)) = 1)
        => consoleLogs' = Append(Tail(consoleLogs), Pushes(Added)[1].entry[1]) ]_vars

\* A step in which the page called the wrapped clear operation.
IsClearCall ==
  /\ Len(calls') = Len(calls) + 1
  /\ calls'[Len(calls')].method = "clear"
  /\ calls'[Len(calls')].target.kind = "clearWrapper"

\* C4: every call of the wrapped clear appends exactly one marker event (level
\* 'info', message '[Console was cleared]'), and appends it before the
\* underlying clear function is invoked, also when that function throws or is
\* unavailable.
C4_ClearAppendsOneMarkerFirst ==
  [][ IsClearCall =>
        /\ Len(Pushes(Added)) = 1
        /\ Len(consoleLogs') = Len(consoleLogs) + 1
        /\ consoleLogs'[Len(consoleLogs')].level = "info"
        /\ consoleLogs'[Len(consoleLogs')].message = "[Console was cleared]"
        /\ \A i, j \in 1..Len(Added) :
             (Added[i].op = "push" /\ Added[j].op = "call" /\ Added[j].fn.kind # "clearWrapper")
               => i < j ]_vars

\* ------------------------------------------------------- claims on the merge

\* The claims' own reading of an event: its instant in ms, its key (timestamp and
\* first 100 characters of the message), the length of its call-site text, and
\* whether its message carries the marker.
Millis(e) == e.timestamp.sec * 1000 + e.timestamp.msec
First100(m) == SubSeq(m, 1, IF Len(m) < 100 THEN Len(m) ELSE 100)
SameKey(a, b) == a.timestamp = b.timestamp /\ First100(a.message) = First100(b.message)
CallSiteLen(e) == IF e.stackTrace = <<>> THEN 0 ELSE Len(e.stackTrace[1])
HasMarker(e) == \E i \in 1..(Len(e.message) - 5) : SubSeq(e.message, i, i + 5) = "KAPTIO"
SortedByTime(seq) == \A i \in 1..(Len(seq) - 1) : Millis(seq[i]) <= Millis(seq[i + 1])
Occurrences(seq, e) == Cardinality({i \in 1..Len(seq) : seq[i] = e})
KeyOccurrences(seq, e) == Cardinality({i \in 1..Len(seq) : SameKey(seq[i], e)})
Range(seq) == {seq[i] : i \in 1..Len(seq)}

\* The scenario's three calls have been made on a store that was empty before
\* them (the self-test has not logged).
ScenarioDone == Len(calls) = 3 /\ selfTest = "pending"

Merged == merged[1]
MergeInputs == debuggerLogs \o contentScriptLogs

\* C6: the sequence mergeLogs returns is sorted by timestamp ascending: of two
\* adjacent output events the earlier one's timestamp is <= the later one's.
C6_MergedSortedByTimestamp == merged # <<>> => SortedByTime(Merged)

C6_Witness ==
  /\ merged # <<>> /\ Len(Merged) = 3
  /\ debuggerLogs # <<>> /\ contentScriptLogs # <<>>
  /\ Millis(debuggerLogs[1]) > Millis(contentScriptLogs[1])

\* The output entry kept for the key of e.
KeptFor(e) == Merged[CHOOSE k \in 1..Len(Merged) : SameKey(Merged[k], e)]

\* C7, as stated: input events with the same (timestamp, first 100 characters of
\* message) collapse to exactly one output entry, and the entry kept is the one
\* with the longer call-site whenever the call-sites differ in length.
C7_KeepsLongerCallSite ==
  merged # <<>> =>
    \A e \in Range(MergeInputs) :
      /\ KeyOccurrences(Merged, e) = 1
      /\ \A d \in Range(MergeInputs) : SameKey(d, e) => CallSiteLen(KeptFor(e)) >= CallSiteLen(d)

\* C7, amended: input events with the same key collapse to exactly one output
\* entry; the entry kept has the longest call-site text among them provided no
\* store event with that key carries 'KAPTIO' in its message and at most one
\* channel event has that key.
C7_OneEntryPerKeyLongestCallSite ==
  merged # <<>> =>
    \A e \in Range(MergeInputs) :
      /\ KeyOccurrences(Merged, e) = 1
      /\ ( /\ \A c \in Range(contentScriptLogs) : SameKey(c, e) => ~HasMarker(c)
           /\ KeyOccurrences(debuggerLogs, e) <= 1 )
         => \A d \in Range(MergeInputs) : SameKey(d, e) => CallSiteLen(KeptFor(e)) >= CallSiteLen(d)

C7_Witness ==
  /\ merged # <<>> /\ Len(Merged) = 1
  /\ Len(debuggerLogs) = 1 /\ Len(contentScriptLogs) = 2
  /\ ~HasMarker(debuggerLogs[1])
  /\ CallSiteLen(debuggerLogs[1]) > CallSiteLen(contentScriptLogs[1])
  /\ CallSiteLen(contentScriptLogs[2]) > CallSiteLen(debuggerLogs[1])
  /\ Merged[1] = contentScriptLogs[2]

\* The two events of the scenario of C8.
ScenarioStoreEvent == LogEntry("log", "KAPTIO init", 100, StackNone)
ScenarioChannelEvent ==
  [level |-> "log", message |-> "KAPTIO init", timestamp |-> toISOString(100),
   url |-> "https://host.example/app.js", stackTrace |-> <<TraceDebugger>>]

\* C8: with the store holding {timestamp 100, "KAPTIO init"} without a call-site
\* and the channel holding {timestamp 100, "KAPTIO init"} with a call-site,
\* mergeLogs returns exactly one event, the channel's.
C8_KeepsChannelEventWithCallSite ==
  ( /\ merged # <<>>
    /\ debuggerLogs = <<ScenarioChannelEvent>>
    /\ contentScriptLogs = <<ScenarioStoreEvent>> )
  => Merged = <<ScenarioChannelEvent>>

\* C8, amended: in that scenario mergeLogs returns exactly one event, the
\* store's: its message carries the marker 'KAPTIO', so it replaces the channel's
\* entry although it has no call-site.
C8_KeepsStoreEventWithMarker ==
  ( /\ merged # <<>>
    /\ debuggerLogs = <<ScenarioChannelEvent>>
    /\ contentScriptLogs = <<ScenarioStoreEvent>> )
  => /\ Merged = <<ScenarioStoreEvent>>
     /\ HasMarker(Merged[1])
     /\ CallSiteLen(Merged[1]) = 0

C8_Witness ==
  /\ merged # <<>>
  /\ debuggerLogs = <<ScenarioChannelEvent>>
  /\ contentScriptLogs = <<ScenarioStoreEvent>>
  /\ CallSiteLen(debuggerLogs[1]) > 0
  /\ Len(Merged) = 1

\* C9: mergeLogs is idempotent on its own output M: merging M as the channel
\* input, as the store input, or as both, returns M again, element for element.
C9_MergeIdempotent ==
  merged # <<>> =>
    /\ mergeLogs(Merged, <<>>) = Merged
    /\ mergeLogs(<<>>, Merged) = Merged
    /\ mergeLogs(Merged, Merged) = Merged

C9_Witness ==
  /\ merged # <<>> /\ Len(Merged) = 3
  /\ Merged # MergeInputs
  /\ \E i \in 1..2 : Millis(Merged[i]) = Millis(Merged[i + 1])
  /\ \E i \in 1..3 : HasMarker(Merged[i])
  /\ mergeLogs(Merged, Merged) = Merged

\* C10, as stated: with an empty channel input the output holds every event of
\* the store input exactly once and nothing else, sorted by timestamp.
C10_ReturnsEveryStoreEvent ==
  (merged # <<>> /\ debuggerLogs = <<>>) =>
    /\ SortedByTime(Merged)
    /\ Len(Merged) = Len(contentScriptLogs)
    /\ \A e \in Range(contentScriptLogs) : Occurrences(Merged, e) = Occurrences(contentScriptLogs, e)

\* C10, amended: with an empty channel input the output is sorted by timestamp,
\* holds store events only, and holds exactly one event for each (timestamp,
\* first 100 characters of message) key of the store input; a store input whose
\* keys are pairwise distinct is returned whole, each event exactly once.
C10_ReturnsOneStoreEventPerKey ==
  (merged # <<>> /\ debuggerLogs = <<>>) =>
    /\ SortedByTime(Merged)
    /\ Range(Merged) \subseteq Range(contentScriptLogs)
    /\ \A e \in Range(contentScriptLogs) : KeyOccurrences(Merged, e) = 1
    /\ (\A e \in Range(contentScriptLogs) : KeyOccurrences(contentScriptLogs, e) = 1)
         => /\ Len(Merged) = Len(contentScriptLogs)
            /\ \A e \in Range(contentScriptLogs) : Occurrences(Merged, e) = 1

C10_Witness ==
  /\ merged # <<>> /\ debuggerLogs = <<>>
  /\ Len(contentScriptLogs) = 2
  /\ contentScriptLogs[1] # contentScriptLogs[2]
  /\ SameKey(contentScriptLogs[1], contentScriptLogs[2])
  /\ Len(Merged) = 1

\* ------------------------------------------------------------------ C11

\* the first position of e's key in the order of insertion, channel events first
FirstInserted(e) ==
  CHOOSE i \in 1..Len(MergeInputs) :
    /\ SameKey(MergeInputs[i], e)
    /\ \A j \in 1..(i - 1) : ~SameKey(MergeInputs[j], e)

\* C11: output events with equal timestamps appear in the order in which their
\* keys were first inserted (channel keys first, each group in input order), a
\* store event that replaced an entry taking the position of that entry.
C11_TiesKeepInsertionOrder ==
  merged # <<>> =>
    \A i \in 1..Len(Merged) : \A j \in 1..Len(Merged) :
      (i < j /\ Millis(Merged[i]) = Millis(Merged[j]))
        => FirstInserted(Merged[i]) < FirstInserted(Merged[j])

C11_Witness ==
  /\ merged # <<>>
  /\ Len(debuggerLogs) = 2 /\ Len(contentScriptLogs) = 2
  /\ ~SameKey(debuggerLogs[1], debuggerLogs[2])
  /\ Millis(debuggerLogs[1]) = Millis(debuggerLogs[2])
  /\ SameKey(contentScriptLogs[2], debuggerLogs[1])
  /\ Millis(contentScriptLogs[1]) = Millis(debuggerLogs[1])
  /\ Merged = <<contentScriptLogs[2], debuggerLogs[2], contentScriptLogs[1]>>

\* ------------------------------------------------------------------ C12

\* the first channel event with e's key, if any
FirstChannel(e) ==
  IF \E i \in 1..Len(debuggerLogs) : SameKey(debuggerLogs[i], e)
  THEN <<debuggerLogs[CHOOSE i \in 1..Len(debuggerLogs) :
                        /\ SameKey(debuggerLogs[i], e)
                        /\ \A j \in 1..(i - 1) : ~SameKey(debuggerLogs[j], e)]>>
  ELSE <<>>

\* the store events with e's key, in input order
StoreCandidates(e) == SelectSeq(contentScriptLogs, LAMBDA c : SameKey(c, e))

RECURSIVE KeptByRule(_, _)
\* the entry the stated rule leaves under a key: a store event replaces the entry
\* iff it carries the marker or has a strictly longer call-site
KeptByRule(kept, rest) ==
  IF rest = <<>> THEN kept
  ELSE KeptByRule(
         IF kept = <<>> THEN <<Head(rest)>>
         ELSE IF HasMarker(Head(rest)) \/ CallSiteLen(Head(rest)) > CallSiteLen(kept[1])
              THEN <<Head(rest)>>
              ELSE kept,
         Tail(rest))

\* C12: in the second pass a store event whose key exists replaces the entry iff
\* its message contains 'KAPTIO' or its call-site is strictly longer than the
\* entry's (absent counting as 0), else the entry stays; in the first pass a
\* channel event never replaces an earlier channel event.
C12_ReplacementRule ==
  merged # <<>> =>
    \A e \in Range(MergeInputs) :
      <<KeptFor(e)>> = KeptByRule(FirstChannel(e), StoreCandidates(e))

C12_Witness ==
  /\ merged # <<>>
  /\ Len(debuggerLogs) = 2 /\ Len(contentScriptLogs) = 1
  /\ SameKey(debuggerLogs[1], debuggerLogs[2])
  /\ CallSiteLen(debuggerLogs[2]) > CallSiteLen(debuggerLogs[1])
  /\ SameKey(contentScriptLogs[1], debuggerLogs[1])
  /\ ~HasMarker(contentScriptLogs[1])
  /\ CallSiteLen(contentScriptLogs[1]) = CallSiteLen(debuggerLogs[1])
  /\ Merged = <<debuggerLogs[1]>>

\* ------------------------------------------------------------------ C16

\* C16: on tick n of the watchdog, 1 <= n <= 3000, applyOverrides runs iff
\* n <= 150 or n is a multiple of 5, so the timer makes 150 + 570 = 720
\* installation runs over its life.
C16_InstallsDenseThenEveryFifthTick ==
  [][ /\ checkCount' # checkCount =>
           /\ checkCount' = checkCount + 1
           /\ timerRuns' \in {timerRuns, timerRuns + 1}
           /\ (timerRuns' = timerRuns + 1) <=> (checkCount' <= 150 \/ checkCount' % 5 = 0)
           /\ timerRuns' = timerRuns + 1 => console' = applyOverrides(console).con
           /\ timerRuns' = timerRuns => console' = console
      /\ timerRuns' # timerRuns => checkCount' # checkCount
      /\ reapplyInterval' = "cleared" => timerRuns' = 150 + 570 ]_vars

C16_Witness ==
  /\ reapplyInterval = "cleared"
  /\ checkCount > 3000
  /\ timerRuns = 720

\* ------------------------------------------------------------------ C17

\* C17, as stated: the timer goes from the dense to the sparse phase to Stopped
\* and always reaches Stopped; it is cancelled at the ceiling of 3000 ticks, so
\* it executes at most 3000 ticks; once stopped it never runs installation again
\* and never becomes active again, also when installation runs throw.
C17_StopsWithin3000Ticks ==
  /\ [][ /\ checkCount' >= checkCount
         /\ reapplyInterval = "cleared" =>
              /\ reapplyInterval' = "cleared"
              /\ checkCount' = checkCount /\ timerRuns' = timerRuns ]_vars
  /\ [](checkCount <= 3000)
  /\ <>(reapplyInterval = "cleared")

\* C17, amended: as above, but the timer is cancelled during its 3001st tick,
\* the first one whose count exceeds 3000; that tick runs no installation, so
\* the timer executes exactly 3001 ticks and no installation after tick 3000.
C17_StopsAtTick3001 ==
  /\ [][ /\ checkCount' >= checkCount
         /\ reapplyInterval = "cleared" =>
              /\ reapplyInterval' = "cleared"
              /\ checkCount' = checkCount /\ timerRuns' = timerRuns
         /\ (reapplyInterval = "set" /\ reapplyInterval' = "cleared") =>
              /\ checkCount' = 3001
              /\ timerRuns' = timerRuns
         /\ checkCount >= 3000 => timerRuns' = timerRuns ]_vars
  /\ [](checkCount <= 3001)
  /\ [](reapplyInterval = "cleared" <=> checkCount = 3001)
  /\ <>(reapplyInterval = "cleared")

C17_Witness ==
  /\ reapplyInterval = "cleared"
  /\ checkCount = 3001
  /\ slotMode["clear"] = "locked"
  /\ timerRuns = 720

\* ------------------------------------------------------------------ C18

\* C18: while the observer is connected every DOM mutation callback runs
\* applyOverrides at once, whatever the tick count; the observer is disconnected
\* when its 60 s window (300 ticks of 200 ms) has elapsed; after that a mutation
\* runs nothing, and the timer's runs go on as before.
C18_ObserverRunsUntilDisconnected ==
  [][ /\ mutations' # mutations =>
           /\ checkCount' = checkCount /\ timerRuns' = timerRuns
           /\ reapplyInterval' = reapplyInterval
           /\ IF observer = "observing"
              THEN /\ observerRuns' = observerRuns + 1
                   /\ console' = applyOverrides(console).con
              ELSE /\ observerRuns' = observerRuns
                   /\ console' = console
      /\ observerRuns' # observerRuns => mutations' # mutations
      /\ observer = "disconnected" => observer' = "disconnected"
      /\ observer' # observer =>
           /\ checkCount' = checkCount /\ timerRuns' = timerRuns
           /\ reapplyInterval' = reapplyInterval
      /\ checkCount' > 300 => observer' = "disconnected"
      /\ observer' = "observing" => checkCount' <= 300
      /\ (observer = "disconnected" /\ checkCount' # checkCount) =>
           ((timerRuns' = timerRuns + 1) <=> (checkCount' <= 150 \/ checkCount' % 5 = 0)) ]_vars

C18_Witness ==
  /\ observer = "disconnected"
  /\ mutations = 1 /\ observerRuns = 0
  /\ checkCount > 300
  /\ timerRuns > 150 + 30

\* ------------------------------------------------------------------ C19

Pending == reassigned # <<>> /\ reassigned[1].at # <<>>
Undone == reassigned # <<>> /\ reassigned[1].at = <<>>

\* what a call of the reassigned method by the page would do now
CallNow == PageCall(reassigned[1].method, <<ArgA>>, StackShort, StateNow)

\* After the installation run the slot holds a tagged wrapper around the page's
\* function, it came in time, and a call is recorded and reaches that function.
UndoneInTime ==
  Undone =>
    /\ ~reassigned[1].late
    /\ IsKaptioWrapper(console[reassigned[1].method])
    /\ console[reassigned[1].method].method = reassigned[1].method
    /\ console[reassigned[1].method].inner = <<reassigned[1].fn>>
    /\ Len(CallNow.logs) > Len(consoleLogs)
    /\ CallNow.logs[Len(CallNow.logs)].level = reassigned[1].method
    /\ \E i \in 1..Len(CallNow.trace) :
         CallNow.trace[i].op = "call" /\ CallNow.trace[i].fn = reassigned[1].fn

\* While the slot still holds the page's function an installation run of the
\* timer is to come, fewer than 1 (dense phase) or 5 ticks after the reassignment.
AwaitsRun ==
  /\ reapplyInterval = "set"
  /\ checkCount - reassigned[1].at[1] < (IF reassigned[1].at[1] < 150 THEN 1 ELSE 5)

\* C19, as stated: while the timer is active, a reassignment of a named slot by
\* the page is undone by the next installation run, at most 1 tick later in the
\* first 150 ticks and at most 5 ticks later afterwards; the slot then holds a
\* tagged wrapper that forwards to the page's function, and calls are recorded.
C19_ReassignmentUndoneByNextRun ==
  /\ Pending => AwaitsRun
  /\ UndoneInTime

\* C19, amended: the same for a reassignment made before the timer's 3000th
\* tick; one made after tick 3000 and before the timer is cancelled at tick 3001
\* meets no further installation run of the timer.
C19_ReassignmentBeforeCeilingUndone ==
  /\ (Pending /\ reassigned[1].at[1] < 3000) => AwaitsRun
  /\ UndoneInTime

C19_Witness ==
  /\ Undone
  /\ ~reassigned[1].dense
  /\ ~proxied
  /\ reassigned[1].fn.inner # <<>>
  /\ observer = "disconnected"
  /\ observerRuns = 0

\* ------------------------------------------------------------------ C20

\* an engine wrapper created around another engine wrapper
WrapsWrapper(f) == IsKaptioWrapper(f) /\ f.inner # <<>> /\ IsKaptioWrapper(f.inner[1])

\* C20: after any interleaving of installation runs and reassignments of the
\* named slots by the page, no engine wrapper is installed around another engine
\* wrapper, and one diagnostic call of the page appends exactly one event (on a
\* page whose console had all its functions at load, for a call that finds an
\* engine wrapper in the slot and returns).
C20_NeverDoubleWrapped ==
  [][ (\A m \in MethodSet : IsFunction(nativeConsole[m])) =>
        /\ \A m \in MethodSet : ~WrapsWrapper(console'[m])
        /\ ( /\ nCalls' = nCalls + 1
             /\ IsKaptioWrapper(calls'[Len(calls')].target)
             /\ ~calls'[Len(calls')].threw ) =>
             Len(consoleLogs') = Len(consoleLogs) + 1 ]_vars

\* ------------------------------------------------------------------ C13

CaptureResponses == {i \in 1..Len(responses) : responses[i].request = "capturePage"}
NoTwoWithSameKey(seq) ==
  \A i \in 1..Len(seq) : \A j \in 1..Len(seq) : i # j => ~SameKey(seq[i], seq[j])

StoreDataMessages == SelectSeq(outbox, LAMBDA m : m.action = "storeData")

\* C14: the logs sent in the response to capturePage, and in the storeData
\* message, equal the store as it was when the request arrived; calls that
\* append to the store while the screenshot is pending do not change them.
C14_ResponseIsStoreAtRequest ==
  [][ \A i \in 1..Len(responses') :
        (i > Len(responses) /\ responses'[i].request = "capturePage") =>
          /\ \E k \in 1..Len(captures) : captures[k].received = responses'[i].received
          /\ responses'[i].consoleLogs = responses'[i].received.store
          /\ Len(StoreDataMessages') > Len(StoreDataMessages) =>
               StoreDataMessages'[Len(StoreDataMessages')].consoleLogs
                 = responses'[i].received.store ]_vars

C14_Witness ==
  \E i \in CaptureResponses :
    /\ responses[i].storeAtSend # responses[i].received.store
    /\ responses[i].received.store # <<>>
    /\ responses[i].screenshot # <<>>
    /\ StoreDataMessages # <<>>

\* ------------------------------------------------------------------ C15

\* C15: a getLogs request returns a copy of the store as it is, in store order
\* and unmerged, sends nothing to the background worker or the channel, and
\* leaves the store, the installed wrappers and the watchdog unchanged.
C15_GetLogsPeeks ==
  [][ \A i \in 1..Len(responses') :
        (i > Len(responses) /\ responses'[i].request = "getLogs") =>
          /\ responses'[i].consoleLogs = consoleLogs
          /\ UNCHANGED <<consoleLogs, console, nativeConsole, outbox, captures,
                         consoleLogsFromDebugger>>
          /\ UNCHANGED watchVars ]_vars

C15_Witness ==
  \E i \in 1..Len(responses) :
    /\ responses[i].request = "getLogs"
    /\ Len(responses[i].consoleLogs) = 2
    /\ SameKey(responses[i].consoleLogs[1], responses[i].consoleLogs[2])
    /\ \E k \in 1..Len(consoleLogsFromDebugger[ThisTab]) :
         SameKey(consoleLogsFromDebugger[ThisTab][k], responses[i].consoleLogs[1])
    /\ outbox = <<>>

\* ------------------------------------------------------------------- C21

\* an installation run (timer or observer) happens in this step
InstallationRun == timerRuns' # timerRuns \/ observerRuns' # observerRuns

\* the slot holds the engine's function for it
Observed(con, slot) ==
  IF slot = "clear" THEN con[slot] = clearWrapper
  ELSE IsKaptioWrapper(con[slot]) /\ con[slot].method = slot

\* C21: for each named function and for clear, when the host rejects both
\* defineProperty and assignment on the slot, no installation run raises an
\* exception, the slot is left as it was for that run, activation has started
\* the watchdog timer and the structural observer, and a run made once the
\* host accepts the slot again installs the engine's function.
C21_RejectedInstallationNotFatal ==
  /\ [](lastRun # "threw")
  /\ [](reapplyInterval # "unset" /\ observer # "none")
  /\ [][InstallationRun =>
          \A s \in Slots :
            /\ slotMode[s] = "locked" => console'[s] = console[s]
            /\ slotMode[s] = "open" => Observed(console', s)]_vars

\* ------------------------------------------------------------------- C22

\* the page's call of this step, when it went to an engine wrapper created around
\* a function
WrappedCallStep ==
  /\ nCalls' = nCalls + 1
  /\ IsKaptioWrapper(calls'[Len(calls')].target)
  /\ calls'[Len(calls')].target.inner # <<>>

\* C22: whatever the shapes of its arguments (primitive, with preview,
\* serializable, not serializable, not even convertible by String), a call of a
\* wrapper appends one event with a string message, invokes the function the
\* wrapper was created around with the same arguments, and raises no exception
\* to the page.
C22_SerializationNeverFatal ==
  [][ WrappedCallStep =>
        LET c == calls'[Len(calls')]
        IN /\ ~c.threw
           /\ Len(Pushes(Added)) = 1
           /\ Pushes(Added)[1].entry[1].message \in STRING
           /\ Len(consoleLogs') = Len(consoleLogs) + 1
           /\ \E i \in 1..Len(Added) :
                /\ Added[i].op = "call"
                /\ Added[i].fn = c.target.inner[1]
                /\ Added[i].by = c.target
                /\ Added[i].args = c.args ]_vars

\* ------------------------------------------------------------------- C23

\* what the page would get from the function itself, called with the arguments
\* of its last call in the state before that call
DirectCall(c) ==
  Invoke(c.target.inner[1], c.args, HostCaller, StackShort, StateNow)

\* C23: a call through an engine wrapper has the outcome, for the page, of a
\* direct call of the function the wrapper was created around: it throws when
\* and only when that function throws, and returns what that function returns.
C23_WrapperInvisibleToPage ==
  [][ WrappedCallStep =>
        LET c == calls'[Len(calls')]
        IN /\ c.threw = DirectCall(c).threw
           /\ ~c.threw => ReturnValue(c.target) = ReturnValue(c.target.inner[1]) ]_vars

\* ------------------------------------------------------------------- C24

\* the event has the four properties, none of them null
HasRequiredFields(e) ==
  /\ {"level", "message", "timestamp", "url"} \subseteq DOMAIN e
  /\ e.level # Null /\ e.message # Null /\ e.url # Null
  /\ e.timestamp \in [sec : Nat, msec : 0..999]

\* C24: every event in the in-page store and in every tab's channel buffer has
\* a non-null level, message, timestamp and url; the stackTrace may be absent.
C24_EventsHaveRequiredFields ==
  /\ \A i \in 1..Len(consoleLogs) : HasRequiredFields(consoleLogs[i])
  /\ \A t \in Tabs : \A i \in 1..Len(consoleLogsFromDebugger[t]) :
       HasRequiredFields(consoleLogsFromDebugger[t][i])

\* the store holds an event without stackTrace (the clear marker) and a buffer
\* holds an event of a call that came without stack frames
C24_Witness ==
  /\ \E i \in 1..Len(consoleLogs) : consoleLogs[i].stackTrace = <<>>
  /\ \E t \in Tabs : \E i \in 1..Len(consoleLogsFromDebugger[t]) :
       /\ consoleLogsFromDebugger[t][i].url = ""
       /\ consoleLogsFromDebugger[t][i].level = "error"

\* ------------------------------------------ a page with the native console

\* The content script loads into a page that has not touched console.
NextNative ==
  \/ \E in \in CallInputs : HostCall(in)
  \/ HostClear

SpecNative == InitStore /\ [][NextNative]_vars

\* ------------------------------------------------------------------- C25

RECURSIVE SplitLines(_)
\* the lines of a text
SplitLines(text) ==
  LET breaks == {i \in 1..Len(text) : SubSeq(text, i, i) = "\n"}
  IN IF breaks = {} THEN <<text>>
     ELSE LET first == CHOOSE i \in breaks : \A j \in breaks : i <= j
          IN <<SubSeq(text, 1, first - 1)>> \o SplitLines(SubSeq(text, first + 1, Len(text)))
\* the frames of a recorded call-site
Frames(callSite) == IF callSite = "" THEN <<>> ELSE SplitLines(callSite)

\* the stack the page's call was made with
StackOfCall(c) == (CHOOSE in \in CallInputs : in.method = c.method /\ in.args = c.args).stack

\* C25: the call-site of the event of a call is made of the entries 3 to 12 of
\* the stack captured in the wrapper, in order: at most 10 frames, never the
\* wrapper's own frame (entry 2), and the empty trace when there is no stack;
\* the event is recorded in either case.
C25_CallSiteIsEntries3To12 ==
  [][ (WrappedCallStep /\ ~calls'[Len(calls')].threw) =>
        LET c == calls'[Len(calls')]
            stack == StackOfCall(c)
            pushed == Pushes(Added)
        IN /\ Len(pushed) >= 1
           /\ pushed[1].entry[1].stackTrace # <<>>
           /\ LET frames == Frames(pushed[1].entry[1].stackTrace[1])
              IN /\ Len(frames) <= 10
                 /\ Len(frames) = (IF Len(stack) <= 2 THEN 0 ELSE Min(Len(stack), 12) - 2)
                 /\ \A k \in 1..Len(frames) :
                      /\ frames[k] = "  " \o Trim(stack[k + 2])
                      /\ frames[k] # "  " \o Trim(stack[2])
                 /\ stack = <<>> => pushed[1].entry[1].stackTrace[1] = "" ]_vars

\* the store holds an event of a call without stack and one of a call with more
\* than 12 stack entries
C25_Witness ==
  /\ \E i \in 1..Len(consoleLogs) : consoleLogs[i].stackTrace = <<"">>
  /\ \E i \in 1..Len(consoleLogs) :
       /\ consoleLogs[i].stackTrace # <<>>
       /\ Len(Frames(consoleLogs[i].stackTrace[1])) = 10
       /\ Frames(consoleLogs[i].stackTrace[1])[10] = "  at f10 (app.js:10:1)"

\* ------------------------------------------------------------------- C26

\* the step handles an attachDebugger request for tabId
AttachStep(tabId) ==
  /\ Len(replies') = Len(replies) + 1
  /\ replies'[Len(replies')].request = "attachDebugger"
  /\ replies'[Len(replies')].tabId = tabId

\* the step is a page load in tabId, reported by chrome.tabs.onUpdated
LoadStep(tabId) == navigatedAt'[tabId] # navigatedAt[tabId]

\* C26: attachDebugger never throws to its caller, and an attach for a tab that
\* is attached already or is closed leaves the tab's buffer as it is; an attach
\* leaves the buffers of the other tabs as they are.
C26_AttachIdempotent ==
  [][ \A t \in Tabs :
        /\ AttachStep(t) => replies'[Len(replies')].success
        /\ (AttachStep(t) \/ LoadStep(t)) =>
             /\ (t \in attached \/ t \notin openTabs) =>
                  /\ consoleLogsFromDebugger'[t] = consoleLogsFromDebugger[t]
                  /\ attached' = attached
             /\ \A u \in Tabs \ {t} :
                  consoleLogsFromDebugger'[u] = consoleLogsFromDebugger[u] ]_vars

\* two attach requests for a tab whose buffer holds an event, and one for a
\* closed tab
C26_Witness ==
  /\ \E i, j \in 1..Len(replies) :
       /\ i < j
       /\ replies[i].request = "attachDebugger" /\ replies[j].request = "attachDebugger"
       /\ replies[i].tabId = replies[j].tabId
       /\ replies[i].success /\ replies[j].success
       /\ consoleLogsFromDebugger[replies[j].tabId] # <<>>
       /\ replies[j].tabId \in attached


\* ------------------------------------------------------------------- C27

\* C27: a tab the debugger is attached to has been named by an attachDebugger
\* request.
C27_AttachedOnlyOnRequest == attached \subseteq requested

\* ------------------------------------------------------------------- C28

\* the step removes tabId
RemoveStep(tabId) == tabId \in openTabs /\ tabId \notin openTabs'

\* C28: when a tab is removed detachDebugger is called for it, attached or not,
\* and does not throw; the tab's capturedData and buffer are deleted; a second
\* detachDebugger changes nothing and does not throw.
C28_RemovalDetachesAndDeletes ==
  [][ \A t \in Tabs :
        RemoveStep(t) =>
          /\ Len(detachCalls') = Len(detachCalls) + 1
          /\ detachCalls'[Len(detachCalls')].tabId = t
          /\ ~detachCalls'[Len(detachCalls')].threw
          /\ capturedData'[t] = <<>>
          /\ consoleLogsFromDebugger'[t] = <<>>
          /\ t \notin attached'
          /\ detachDebugger(attached', t) = [attached |-> attached', threw |-> FALSE] ]_vars

\* a tab with the debugger attached and one without have been removed
C28_Witness ==
  /\ \E i \in 1..Len(detachCalls) : detachCalls[i].wasAttached
  /\ \E i \in 1..Len(detachCalls) : ~detachCalls[i].wasAttached
  /\ openTabs = {}
  /\ attached = {}

\* ------------------------------------------------------------------- C29

\* every event of logs was captured in the page context tabId is in now
CapturedInContext(tabId, logs) ==
  \A i \in 1..Len(logs) : getTime(logs[i].timestamp) >= navigatedAt[tabId]

\* C29: after a tab has loaded a new page, no answer to a request about the tab
\* (getLogs and capturePage of its content script, getDebuggerLogs and getData
\* of the worker) holds an event captured before that.
C29_NoEventSurvivesNavigation ==
  [][ /\ Len(replies') > Len(replies) =>
           CapturedInContext(replies'[Len(replies')].tabId, replies'[Len(replies')].logs)
      /\ Len(responses') > Len(responses) =>
           CapturedInContext(ThisTab, responses'[Len(responses')].consoleLogs) ]_vars

\* C29 for the requests the content script answers
C29_ContentScriptAnswersFresh ==
  [][ Len(responses') > Len(responses) =>
        CapturedInContext(ThisTab, responses'[Len(responses')].consoleLogs) ]_vars

\* ------------------------------------------------------------------- C30

CallOutcome(con, slot) ==
  LET st == PageCall(slot, <<ArgA>>, StackShort,
                     [logs |-> <<>>, con |-> con, trace |-> <<>>, threw |-> FALSE, depth |-> 0])
  IN [events |-> Len(Pushes(st.trace)),
      reaches |-> {st.trace[i].fn : i \in {j \in 1..Len(st.trace) :
                     st.trace[j].op = "call" /\ ~IsKaptioWrapper(st.trace[j].fn)
                       /\ st.trace[j].fn.kind # "clearWrapper"}},
      threw |-> st.threw]

\* the step is an installation run of the page's console
InstallStep == nRuns' = nRuns + 1

\* C31: a second installation run right after a first leaves each named slot
\* holding the wrapper the first run left there, and leaves what a call of any
\* slot, clear included, reaches and how many events it appends as they were.
C31_InstallationIdempotent ==
  [][ InstallStep =>
        LET second == applyOverrides(console').con
        IN /\ \A m \in MethodSet : second[m] = console'[m]
           /\ \A s \in Slots : CallOutcome(second, s) = CallOutcome(console', s) ]_vars

\* an installation run has wrapped a function of the page that the page had put
\* into the log slot
C31_Witness ==
  /\ nRuns > 0
  /\ IsKaptioWrapper(console["log"])
  /\ console["log"].inner # <<>>
  /\ console["log"].inner[1].kind = "host"

\* ------------------------------------------------------------------- C32

\* the events appended so far, in the order of their appends
EventsPushed == [i \in 1..Len(Pushes(trace)) |-> Pushes(trace)[i].entry[1]]

\* C32: a wrapper appends the event of its call before it invokes the underlying
\* function, with nothing in between: a call a wrapper forwards comes right
\* after that wrapper's append, every call of a wrapper is followed by its append
\* before any other function starts, and the store holds the events in the
\* order the calls started.
C32_CaptureAppendForward ==
  /\ \A j \in 1..Len(trace) :
       (trace[j].op = "call" /\ IsKaptioWrapper(trace[j].by)) =>
         /\ j > 1
         /\ trace[j - 1].op = "push"
         /\ trace[j - 1].fn = trace[j].by
  /\ \A i \in 1..Len(trace) :
       (trace[i].op = "call" /\ IsKaptioWrapper(trace[i].fn) /\ MessageOf(trace[i].args).ok) =>
         /\ i < Len(trace)
         /\ trace[i + 1].op = "push"
         /\ trace[i + 1].fn = trace[i].fn
  /\ consoleLogs = EventsPushed

\* one call of the page went through a wrapper, the page's function under it and
\* the wrapper under that: the outer wrapper's event, then the inner one's
C32_Witness ==
  /\ nCalls = 1
  /\ Len(Pushes(trace)) = 2
  /\ Len(consoleLogs) = 2
  /\ Pushes(trace)[1].fn.inner # <<>>
  /\ Pushes(trace)[1].fn.inner[1].kind = "host"
  /\ Pushes(trace)[1].fn.inner[1].inner = <<Pushes(trace)[2].fn>>

\* ------------------------------------------------------------------- C33

\* A step in which the page called a wrapper created around no function.
OrphanWrapperCall ==
  /\ nCalls' = nCalls + 1
  /\ IsKaptioWrapper(calls'[Len(calls')].target)
  /\ calls'[Len(calls')].target.inner = <<>>

\* C33: a call of a wrapper whose underlying function is unavailable appends one
\* event, forwards at most once, and does not enter the wrapper again.
C33_OrphanWrapperTerminates ==
  [][ OrphanWrapperCall =>
        LET w == calls'[Len(calls')].target
        IN /\ Len(Pushes(Added)) = 1
           /\ Len(SelectSeq(Added, LAMBDA r : r.op = "call" /\ r.by = w)) <= 1
           /\ Len(SelectSeq(Added, LAMBDA r : r.op = "call" /\ r.fn = w)) = 1 ]_vars

\* ------------------------------------------------------------------- C34

\* the events of a sequence
EventsOf(logs) == {logs[i] : i \in 1..Len(logs)}

\* C34: a capturePage request that arrives after a report was accepted, with no
\* call of the page in between, is answered without any event of that report.
C34_ReportedEventsCleared ==
  [][ \A k \in 1..Len(reports) :
        ( /\ Len(responses') = Len(responses) + 1
          /\ responses'[Len(responses')].request = "capturePage"
          /\ Len(responses) >= reports[k].requests
          /\ nCalls = reports[k].nCalls )
        => EventsOf(responses'[Len(responses')].consoleLogs)
             \cap EventsOf(reports[k].consoleLogs) = {} ]_vars

\* ------------------------------------------------------------------- C35

\* e is the event of a diagnostic call the page has made
FromPageCall(e) ==
  \E k \in 1..Len(calls) :
    IF calls[k].method = "clear"
    THEN e.message = "[Console was cleared]" /\ e.level = "info"
    ELSE /\ MessageOf(calls[k].args).ok
         /\ e.message = MessageOf(calls[k].args).val

\* C35: every event of the store comes from a diagnostic call of the page; what
\* the engine writes itself (load message, self-test, re-apply note, notes at
\* capture) is not in the store.
C35_OnlyPageEvents == \A i \in 1..Len(consoleLogs) : FromPageCall(consoleLogs[i])

\* ------------------------------------------------------------------- C36

\* the step appends one event to the buffer of tabId
BufferStep(tabId) ==
  /\ consoleLogsFromDebugger'[tabId] # consoleLogsFromDebugger[tabId]
  /\ \/ Len(consoleLogsFromDebugger'[tabId]) = Len(consoleLogsFromDebugger[tabId]) + 1
     \/ Len(consoleLogsFromDebugger[tabId]) = 500

C37_NoStateForRemovedTab ==
  \A t \in Tabs \ openTabs :
    capturedData[t] = <<>> /\ consoleLogsFromDebugger[t] = <<>>

\* C37 for capturedData alone
C37_NoCapturedDataForRemovedTab == \A t \in Tabs \ openTabs : capturedData[t] = <<>>

\* C37 for the channel's buffers alone
C37_NoBufferForRemovedTab == \A t \in Tabs \ openTabs : consoleLogsFromDebugger[t] = <<>>


\* ---------------------------------------------------------------- C38

\* the responses delivered for the capturePage request with this id
ResponsesTo(k) == {j \in 1..Len(responses) : responses[j].id = k}

CaptureAsked(k) ==
  \/ \E i \in 1..Len(captures) : captures[i].id = k
  \/ ResponsesTo(k) # {}

\* A response added by this step answers a pending request with the log sequence
\* taken when the request arrived, and with no screenshot when none was obtained.
AnswerStep ==
  Len(responses') > Len(responses) =>
    LET r == responses'[Len(responses')]
    IN \E i \in 1..Len(captures) :
         /\ captures[i].id = r.id
         /\ r.consoleLogs = captures[i].allLogs
         /\ r.consoleLogs = captures[i].received.store
         /\ captures[i].stage = "none" => r.screenshot = <<>>
         /\ r.screenshot # <<>> => captures[i].stage = "image"

CanSubmit == popupPc # "closed" /\ formPointerEvents = "auto" /\ ~submitDisabled

\* C39: when init of the popup fails after capture has started, the popup
\* eventually reaches a state in which the submit button is enabled and a
\* submission can be started.
C39_FormEnabledAfterInitError == (popupPc = "failed") ~> CanSubmit

\* After a failure of loadCapturedData the form takes the pointer again, but the
\* button stays disabled.
C39_ButtonStaysDisabledAfterLoadError ==
  [][(popupPc \in {"failed", "reenabled"} /\ ~captureComplete.logs)
       => (submitDisabled /\ submitDisabled')]_vars

\* ---------------------------------------------------------------- C40

\* the events of both inputs of the merge, and their keys
MergeEvents == Range(debuggerLogs) \cup Range(contentScriptLogs)

\* the key of the claim: the timestamp and the first 100 characters of the message
TimeAndPrefix(e) == <<e.timestamp, SubSeq(e.message, 1, Min(KeyPrefixLen, Len(e.message)))>>

MergeKeys == {TimeAndPrefix(e) : e \in MergeEvents}

MergeOutputSound ==
  merged # <<>> =>
    LET out == merged[1]
    IN /\ \A i \in 1..Len(out) : out[i] \in MergeEvents
       /\ \A k \in MergeKeys : Cardinality({i \in 1..Len(out) : TimeAndPrefix(out[i]) = k}) = 1
       /\ Len(out) = Cardinality(MergeKeys)
       /\ Len(out) <= Len(debuggerLogs) + Len(contentScriptLogs)

\* C40: every event mergeLogs returns is one of the input events, unmodified; every
\* key (timestamp, first 100 characters of the message) of either input occurs in
\* exactly one returned event, so the result has as many events as there are
\* distinct keys and no more than both inputs together; the inputs are left as
\* they were.
C40_MergeReturnsOneInputEventPerKey ==
  /\ []MergeOutputSound
  /\ [][debuggerLogs' = debuggerLogs /\ contentScriptLogs' = contentScriptLogs]_vars

\* a merge of inputs that share keys, within and across the inputs, one of them
\* by the first 100 characters of two longer messages
C40_Witness ==
  /\ merged # <<>>
  /\ Len(merged[1]) = 2
  /\ Len(debuggerLogs) = MaxChannel /\ Len(contentScriptLogs) = MaxStore
  /\ \E i \in 1..Len(debuggerLogs), j \in 1..Len(contentScriptLogs) :
       /\ TimeAndPrefix(debuggerLogs[i]) = TimeAndPrefix(contentScriptLogs[j])
       /\ debuggerLogs[i].message # contentScriptLogs[j].message
  /\ \E i \in 1..Len(merged[1]) : \E j \in 1..Len(contentScriptLogs) :
       merged[1][i] = contentScriptLogs[j]
  /\ \E i \in 1..Len(merged[1]) : \E j \in 1..Len(debuggerLogs) :
       merged[1][i] = debuggerLogs[j]

====
